---- MODULE Spec2Model ----
(***************************************************************************)
(* SPSC byte ring buffer over a shared-memory region (shm::ByteRingBuffer, *)
(* shm::ShmProducer).                                                      *)
(*                                                                         *)
(* Widths.  uint32_t is narrowed, independently for its two roles:         *)
(*  - an index or length word (head, tail, len, total, available, msg_len) *)
(*    is made of 4 bytes of ByteBits bits each, so index and length        *)
(*    arithmetic is taken modulo IndexMod = 2^(4*ByteBits) and the 4-byte  *)
(*    little-endian length prefix encodes exactly one such word;           *)
(*  - a size word (total_size, data_size, the capacity computed by the     *)
(*    constructor) has SizeBits bits.                                      *)
(* Rings whose traffic is explored have capacity <= IndexMod / 2, the      *)
(* counterpart of capacity <= 2^31.  kHeaderSize and the prefix size keep  *)
(* their values.                                                           *)
(***************************************************************************)
EXTENDS Integers, Sequences, FiniteSets, TLC

\* ------------------------------------------------------------------ bounds
ByteBits == 1

SizeBits == 8

\* --------------------------------------------------------------- constants
kHeaderSize == 16

kLenPrefix == 4

ByteMod == 2^ByteBits

IndexMod == ByteMod^kLenPrefix

SizeMod == 2^SizeBits

Bytes == 0..(ByteMod - 1)

\* A cell of the caller's output buffer that Read has not stored into.
Untouched == -1

\* A byte fetched from beyond the end of the data area.
Indeterminate == -2

\* ------------------------------------------------------- machine arithmetic
\* uint32_t wrap-around of an index or length word
U(x) == x % IndexMod

\* uint32_t wrap-around of a size word
USize(x) == x % SizeMod

RECURSIVE BitAnd(_, _)
BitAnd(a, b) ==
  IF a = 0 \/ b = 0 THEN 0
  ELSE (a % 2) * (b % 2) + 2 * BitAnd(a \div 2, b \div 2)

RECURSIVE BitOr(_, _)
BitOr(a, b) ==
  IF a = 0 THEN b
  ELSE IF b = 0 THEN a
  ELSE (IF a % 2 = 1 \/ b % 2 = 1 THEN 1 ELSE 0) + 2 * BitOr(a \div 2, b \div 2)

Shr(v, k) == v \div (2^k)

Min(a, b) == IF a < b THEN a ELSE b

\* mutant: the final shift omitted, so the result is rounded up past v
RoundDownPow2NoShift(v) ==
  IF v = 0 THEN 0
  ELSE LET v1 == BitOr(v, Shr(v, 1))
           v2 == BitOr(v1, Shr(v1, 2))
           v4 == BitOr(v2, Shr(v2, 4))
           v8 == BitOr(v4, Shr(v4, 8))
           v16 == BitOr(v8, Shr(v8, 16))
       IN USize(v16 + 1)

\* ByteRingBuffer::RoundDownPow2
RoundDownPow2(v) ==
  IF v = 0 THEN 0
  ELSE LET v1 == BitOr(v, Shr(v, 1))
           v2 == BitOr(v1, Shr(v1, 2))
           v4 == BitOr(v2, Shr(v2, 4))
           v8 == BitOr(v4, Shr(v4, 8))
           v16 == BitOr(v8, Shr(v8, 16))
       IN USize(Shr(v16, 1) + 1)

\* little-endian image of a length word, as the 4 bytes &len points to
EncLE(len) == [i \in 1..kLenPrefix |-> (len \div (ByteMod^(i - 1))) % ByteMod]

\* value of the 4 bytes copied into msg_len
DecLE(b) == b[1] + ByteMod * b[2] + ByteMod * ByteMod * b[3]
            + ByteMod * ByteMod * ByteMod * b[4]


\* ------------------------------------------------------------------ inputs
\* calls explored per run
MaxCalls == 5

\* requested data-area sizes of the rings whose traffic is explored; 11 gives
\* capacity 8, half the index range when ByteBits = 1
RingRequests == {6, 11}

\* payload lengths offered to Write on a ring of capacity cap: empty, short,
\* nearly half, exact fill, too long, and lengths for which len + 4 wraps
WriteLens(cap) ==
  {0, 1, cap \div 2 - 1, cap - 4, cap - 3, IndexMod - 4, IndexMod - 1}

\* payload contents: a counting pattern starting at byte b
Pattern(len, b) == [i \in 1..len |-> (b + i - 1) % ByteMod]

\* sizes of the caller's output buffer offered to Read
MaxLens(cap) == {1, cap \div 2 - 1, cap - 4, IndexMod - 1}

\* ------------------------------------------------------------------- state
VARIABLES
  head,       \* RingHeader::head
  tail,       \* RingHeader::tail
  capacity,   \* RingHeader::capacity
  reserved,   \* RingHeader::reserved
  data_,      \* the data area, offsets 0..capacity-1
  mask_,      \* ByteRingBuffer::mask_ of the producer and the consumer view
  fault,      \* processes stopped by a memory fault
  overrun,    \* a copy has touched bytes beyond the data area
  pending,    \* history: accepted payloads not yet consumed, oldest first
  hist,       \* history: flags about the calls made so far
  last,       \* history: the last completed call, its arguments and results
  calls,      \* history: number of calls made
  pcP,        \* producer thread: position inside Write
  P,          \* producer thread: locals of Write
  pcC,        \* consumer thread: position inside Read
  C,          \* consumer thread: locals of Read
  ctor,       \* construction of a view or of a ShmProducer: stage and arguments
  shm,        \* the named region and the ShmProducer / ShmConsumer objects on it
  objects,    \* SharedMemory objects: their members
  posix       \* the POSIX name space, and the last call made on an object

ringVars == <<head, tail, capacity, reserved, data_, mask_>>

threadVars == <<pcP, P, pcC, C>>

regionVars == <<objects, posix>>

ctorVars == <<ctor, shm, objects, posix>>

vars == <<head, tail, capacity, reserved, data_, mask_, fault, overrun,
          pending, hist, last, calls, pcP, P, pcC, C, ctor, shm, objects,
          posix>>

Views == {"prod", "cons"}

NoCall == [op |-> "none", len |-> 0, payload |-> <<>>, max |-> 0, ret |-> 0,
           ok |-> FALSE, out |-> <<>>, expect |-> <<>>, h0 |-> 0, t0 |-> 0,
           d0 |-> <<>>, afterSkip |-> FALSE, path |-> "none"]

NoP == [n |-> 0, len |-> 0, payload |-> <<>>, total |-> 0, wb_head |-> 0,
        wb_tail |-> 0, head |-> 0, i |-> 0]

NoC == [n |-> 0, max |-> 0, tail |-> 0, head |-> 0, available |-> 0,
        buf |-> <<>>, msg_len |-> 0, i |-> 0, out |-> <<>>]

\* a header: the four words of RingHeader
Header(h, t, c, r) == [head |-> h, tail |-> t, capacity |-> c, reserved |-> r]

\* stage, req, size, valid, ring: how far the construction is, the data size
\* asked for, the region's size, SharedMemory::Valid(), ring_ != nullptr;
\* stores: the header words the producer-mode constructor has stored, in
\* order; dirty: the header words found in the memory; seenAt, seen: the
\* stage at which a consumer-mode view was constructed on the same memory
\* and the header it found
NoCtor == [stage |-> "start", req |-> 0, size |-> 0, valid |-> FALSE,
           ring |-> FALSE, stores |-> <<>>, dirty |-> Header(0, 0, 0, 0),
           seenAt |-> "none",
           seen |-> Header(Untouched, Untouched, Untouched, Untouched)]

\* linked: the name exists (shm_open without O_CREAT succeeds);
\* prod, cons: the ShmProducer and ShmConsumer objects; destroyed: Destroy()
\* was called; late: the consumer was constructed after the producer's end;
\* err: GetError() of the consumer's region; unlinkedAtOpen: Destroy() had
\* been called when the consumer was constructed; arg: the size the
\* consumer was constructed with; hint: the size it handed to SharedMemory;
\* mapped: the length of its mapping
NoShm == [linked |-> FALSE, prod |-> "none", wasValid |-> FALSE,
          destroyed |-> FALSE, cons |-> "none", hint |-> 0, late |-> FALSE,
          early |-> FALSE, err |-> "none", unlinkedAtOpen |-> FALSE, arg |-> 0, mapped |-> 0]

\* SharedMemory objects of the model
MaxObjects == 2

ObjIds == 1..MaxObjects

\* class SharedMemory: the default member initialisers; state tells whether
\* the object has been constructed ("live") or destructed ("dead"); data is
\* data_ != nullptr, name is name_[0] != '\0'
NoObject == [state |-> "unborn", data |-> FALSE, size |-> 0, fd |-> -1,
             error |-> "kOk", persist |-> TRUE, create |-> FALSE,
             name |-> FALSE, map |-> 0, region |-> 0]

\* linked: the name exists; size: the length of the segment under the name;
\* op, by: the last call and its object; wasValid: Valid() of that object
\* before the call and failed: GetError() # kOk of it; unlinked: the call
\* removed an existing name; unmapped: the call unmapped a region
NoPosix == [linked |-> FALSE, size |-> 0, op |-> "none", by |-> 0,
            wasValid |-> FALSE, failed |-> FALSE, unlinked |-> FALSE,
            unmapped |-> FALSE, region |-> 0,
            mem |-> [r \in ObjIds |-> 0], unmaps |-> [r \in ObjIds |-> 0],
            mmaps |-> [r \in ObjIds |-> 0]]

NoHist == [zeroAccepted |-> FALSE, wrapAccepted |-> FALSE, undersized |-> FALSE,
           uhead |-> 0, utail |-> 0, accepted |-> 0, received |-> 0]

\* --------------------------------------------------------- ring operations
\* ByteRingBuffer::ByteRingBuffer, is_producer = true
ProducerInit(total_size) ==
  LET data_size == USize(total_size - kHeaderSize)
      cap == RoundDownPow2(data_size)
  IN [head |-> 0, tail |-> 0, capacity |-> cap, reserved |-> 0,
      mask |-> USize(cap - 1)]

\* mutant: the free space returned as the occupancy
ReadableOfFree(h, t) == U(capacity - U(h - t))

\* ByteRingBuffer::ReadableBytes on given index values
ReadableOf(h, t) == U(h - t)

\* mutant: one slot kept free, as in rings that tell full from empty that way
WriteableOfOneSlot(h, t, cap) == U(cap - 1 - U(h - t))

\* ByteRingBuffer::WriteableBytes on given index values
WriteableOf(h, t, cap) == U(cap - U(h - t))

ReadableBytes == ReadableOf(head, tail)

WriteableBytes == WriteableOf(head, tail, capacity)

HasData == ReadableBytes >= 4

Capacity == capacity

\* Write: total = len + 4
WriteTotal(len) == U(len + 4)

\* mutant: the free space compared with the payload length, prefix forgotten
NoSpaceForPayload(free, total) == free < U(total - kLenPrefix)

\* Write: if (WriteableBytes() < total) return false
NoSpace(free, total) == free < total

\* mutant: the index is kept inside the data area, as in rings whose indices
\* are offsets
NewHeadMasked(h, total) == BitAnd(h + total, capacity - 1)

\* Write: header_->head = head + total
NewHead(h, total) == U(h + total)

\* Read: if (available < 4) return 0
TooShort(available) == available < 4

\* mutant: a frame counts as complete only once more bytes follow it
IncompleteUntilNextFrame(available, msg_len) ==
  msg_len = 0 \/ available <= msg_len + 4

\* Read: if (msg_len == 0 || available < msg_len + 4) return 0
Incomplete(available, msg_len) == msg_len = 0 \/ available < U(msg_len + 4)

\* Read: if (msg_len > max_len) skip
TooLarge(msg_len, max_len) == msg_len > max_len

\* mutant: the index saturates at the top of its range instead of wrapping
NewTailSaturating(t, msg_len) == Min(t + U(msg_len + 4), IndexMod - 1)

\* Read: header_->tail = tail + msg_len + 4
NewTail(t, msg_len) == U(t + msg_len + 4)

\* WriteRaw / ReadRaw: offset = pos & mask_
RawOffset(pos, m) == BitAnd(pos, m)

\* WriteRaw / ReadRaw: first = header_->capacity - offset
RawFirst(offset) == U(capacity - offset)

\* a byte address beyond the end of the data area
Beyond == -1

\* WriteRaw / ReadRaw: the data-area offset that byte k (k = 0 .. len-1) of a
\* copy of len bytes at logical position pos goes to or comes from: one
\* memcpy at offset when first >= len, else a memcpy of first bytes at offset
\* followed by a memcpy of len - first bytes at offset 0
RawByteAt(pos, m, len, k) ==
  LET offset == RawOffset(pos, m)
      first == RawFirst(offset)
      at == IF first >= len \/ k < first THEN offset + k ELSE k - first
  IN IF at < capacity THEN at ELSE Beyond

\* the second memcpy of WriteRaw / ReadRaw runs past the end of the data area
RawOverrun(m, pos, len) ==
  \E k \in 0..(len - 1) : RawByteAt(pos, m, len, k) = Beyond

Max(S) == CHOOSE x \in S : \A y \in S : y <= x

\* ByteRingBuffer::WriteRaw: the data area after copying len bytes of src to
\* logical position pos, bytes stored in ascending order of k
WriteRaw(d, m, pos, src, len) ==
  [j \in DOMAIN d |->
     LET ks == {k \in 0..(len - 1) : RawByteAt(pos, m, len, k) = j}
     IN IF ks = {} THEN d[j] ELSE src[Max(ks) + 1]]

\* ByteRingBuffer::ReadRaw: the len bytes copied out from logical position pos
ReadRaw(d, m, pos, len) ==
  [k \in 1..len |->
     LET a == RawByteAt(pos, m, len, k - 1)
     IN IF a = Beyond THEN Indeterminate ELSE d[a]]

\* the caller's output buffer of max_len cells after Read stored b into it
StoreOut(max_len, b) ==
  [i \in 1..max_len |-> IF i <= Len(b) THEN b[i] ELSE Untouched]

FreshOut(max_len) == [i \in 1..max_len |-> Untouched]

\* the oldest accepted payload not yet consumed, if any
Expect == IF pending = <<>> THEN <<>> ELSE <<Head(pending)>>

Pop(q) == IF q = <<>> THEN q ELSE Tail(q)

Accept(p) ==
  /\ pending' = Append(pending, p)
  /\ hist' = [hist EXCEPT !.zeroAccepted = @ \/ Len(p) = 0,
                          !.wrapAccepted = @ \/ Len(p) + 4 >= IndexMod,
                          !.uhead = @ + WriteTotal(Len(p)),
                          !.accepted = @ + 1]

\* history: a tail store consumed the frame whose prefix read msg_len
Consumed(msg_len) == [hist EXCEPT !.utail = @ + U(msg_len + 4)]

\* history of a Read that returned msg_len
Delivered(msg_len) == [Consumed(msg_len) EXCEPT !.received = @ + 1]

\* ----------------------------------------------- whole calls, one at a time
\* ByteRingBuffer::Write(data, len), data pointing at the bytes of p
Write(p) ==
  LET len == Len(p)
      total == WriteTotal(len)
      h == head
      d1 == WriteRaw(data_, mask_["prod"], h, EncLE(len), 4)
      d2 == WriteRaw(d1, mask_["prod"], U(h + 4), p, len)
      call == [NoCall EXCEPT !.op = "Write", !.len = len, !.payload = p,
                             !.h0 = head, !.t0 = tail, !.d0 = data_]
  IN /\ fault = {}
     /\ calls < MaxCalls
     /\ calls' = calls + 1
     /\ IF NoSpace(WriteableBytes, total)
        THEN /\ last' = [call EXCEPT !.ok = FALSE]
             /\ UNCHANGED <<head, data_, fault, overrun, pending, hist>>
        ELSE /\ data_' = d2
             /\ IF RawOverrun(mask_["prod"], U(h + 4), len)
                THEN /\ overrun' = TRUE
                     /\ \/ /\ fault' = {"prod"}
                           /\ last' = [call EXCEPT !.op = "WriteFault"]
                           /\ UNCHANGED <<head, pending, hist>>
                        \/ /\ head' = NewHead(h, total)
                           /\ last' = [call EXCEPT !.ok = TRUE]
                           /\ Accept(p)
                           /\ UNCHANGED fault
                ELSE /\ head' = NewHead(h, total)
                     /\ last' = [call EXCEPT !.ok = TRUE]
                     /\ Accept(p)
                     /\ UNCHANGED <<fault, overrun>>
     /\ UNCHANGED <<tail, capacity, reserved, mask_, threadVars, ctorVars>>

\* words a load outside the data area may return
GarbageWords == 0..(IndexMod - 1)

\* ByteRingBuffer::Read(out, max_len) from the test on the prefix msg_len on;
\* wild tells that the prefix was loaded from outside the data area
ReadFrame(max_len, msg_len, wild) ==
  LET t == tail
      h == head
      available == ReadableOf(h, t)
      call == [NoCall EXCEPT !.op = "Read", !.max = max_len,
                             !.out = FreshOut(max_len), !.expect = Expect,
                             !.h0 = head, !.t0 = tail, !.d0 = data_,
                             !.afterSkip = (last.op = "Read" /\ last.expect # <<>>
                                            /\ Len(last.expect[1]) > last.max)]
      copies == /\ ~TooShort(available)
                /\ ~Incomplete(available, msg_len)
                /\ ~TooLarge(msg_len, max_len)
  IN /\ fault = {}
     /\ calls < MaxCalls
     /\ calls' = calls + 1
     /\ IF TooShort(available)
        THEN /\ last' = [call EXCEPT !.path = "short"]
             /\ UNCHANGED <<tail, pending, fault>>
        ELSE IF Incomplete(available, msg_len)
        THEN /\ last' = [call EXCEPT !.path = "incomplete"]
             /\ UNCHANGED <<tail, pending, fault>>
        ELSE IF TooLarge(msg_len, max_len)
        THEN /\ tail' = NewTail(t, msg_len)
             /\ pending' = Pop(pending)
             /\ last' = [call EXCEPT !.path = "skip"]
             /\ UNCHANGED fault
        ELSE IF RawOverrun(mask_["cons"], U(t + 4), msg_len)
        THEN \/ /\ fault' = {"cons"}
                /\ last' = [call EXCEPT !.op = "ReadFault"]
                /\ UNCHANGED <<tail, pending>>
             \/ /\ tail' = NewTail(t, msg_len)
                /\ pending' = Pop(pending)
                /\ last' = [call EXCEPT !.ret = msg_len, !.path = "deliver",
                              !.out = StoreOut(max_len,
                                 ReadRaw(data_, mask_["cons"], U(t + 4), msg_len))]
                /\ UNCHANGED fault
        ELSE /\ tail' = NewTail(t, msg_len)
             /\ pending' = Pop(pending)
             /\ last' = [call EXCEPT !.ret = msg_len, !.path = "deliver",
                           !.out = StoreOut(max_len,
                                     ReadRaw(data_, mask_["cons"], U(t + 4), msg_len))]
             /\ UNCHANGED fault
     /\ overrun' = (overrun \/ wild
                    \/ (copies /\ RawOverrun(mask_["cons"], U(t + 4), msg_len)))
     /\ hist' = [(IF tail' = tail THEN hist ELSE Consumed(msg_len))
                  EXCEPT !.undersized =
                    @ \/ (pending # <<>> /\ Len(Head(pending)) > max_len),
                         !.received =
                    @ + (IF last'.path = "deliver" THEN 1 ELSE 0)]
     /\ UNCHANGED <<head, capacity, reserved, data_, mask_, threadVars, ctorVars>>

\* ByteRingBuffer::Read(out, max_len).  A ReadRaw of the prefix that leaves
\* the data area (a view whose mask_ is not capacity - 1) faults or returns
\* some word.
Read(max_len) ==
  IF ~TooShort(ReadableBytes) /\ RawOverrun(mask_["cons"], tail, 4)
  THEN \/ /\ fault = {}
          /\ calls < MaxCalls
          /\ calls' = calls + 1
          /\ fault' = {"cons"}
          /\ overrun' = TRUE
          /\ last' = [NoCall EXCEPT !.op = "ReadFault", !.max = max_len,
                                    !.out = FreshOut(max_len), !.expect = Expect,
                                    !.h0 = head, !.t0 = tail, !.d0 = data_]
          /\ UNCHANGED <<ringVars, pending, hist, threadVars, ctorVars>>
       \/ \E g \in GarbageWords : ReadFrame(max_len, g, TRUE)
  ELSE ReadFrame(max_len, DecLE(ReadRaw(data_, mask_["cons"], tail, 4)), FALSE)

\* --------------------------------------------------------- specification
\* a region of zeroed bytes with the header a producer-mode view wrote
Init ==
  \E r \in RingRequests :
    LET hdr == ProducerInit(kHeaderSize + r)
    IN /\ head = hdr.head
       /\ tail = hdr.tail
       /\ capacity = hdr.capacity
       /\ reserved = hdr.reserved
       /\ mask_ = [v \in Views |-> hdr.mask]
       /\ data_ = [j \in 0..(hdr.capacity - 1) |-> 0]
       /\ fault = {}
       /\ overrun = FALSE
       /\ pending = <<>>
       /\ hist = NoHist
       /\ last = NoCall
       /\ calls = 0
       /\ pcP = "idle"
       /\ P = NoP
       /\ pcC = "idle"
       /\ C = NoC
       /\ ctor = [NoCtor EXCEPT !.stage = "view", !.req = r,
                                !.size = kHeaderSize + r]
       /\ shm = NoShm
       /\ objects = [o \in ObjIds |-> NoObject]
       /\ posix = NoPosix

DoWrite == \E len \in WriteLens(capacity) : Write(Pattern(len, calls))

DoRead == \E m \in MaxLens(capacity) : Read(m)

Next == DoWrite \/ DoRead

Spec == Init /\ [][Next]_vars

\* ------------------------------------ one producer and one consumer thread
\* Write and Read calls started per run
MaxConcWrites == 2

MaxConcReads == 2

ConcWriteLens(cap) == {0, 1, cap - 4, IndexMod - 4}

ConcMaxLens(cap) == {1, cap - 4, IndexMod - 1}

seqVars == <<calls>>

\* Write entered; WriteableBytes: head = header_->head
P_WbHead(len) ==
  /\ pcP = "idle"
  /\ P.n < MaxConcWrites
  /\ P' = [NoP EXCEPT !.n = P.n + 1, !.len = len,
                      !.payload = Pattern(len, P.n), !.total = WriteTotal(len),
                      !.wb_head = head]
  /\ pcP' = "wb_tail"
  /\ UNCHANGED <<ringVars, fault, overrun, pending, hist, last, seqVars, ctorVars, pcC, C>>

\* WriteableBytes: tail = header_->tail
P_WbTail ==
  /\ pcP = "wb_tail"
  /\ P' = [P EXCEPT !.wb_tail = tail]
  /\ pcP' = "wb_cap"
  /\ UNCHANGED <<ringVars, fault, overrun, pending, hist, last, seqVars, ctorVars, pcC, C>>

\* mutant: a Write that finds too little space waits for the consumer
P_WbCapWaits ==
  /\ pcP = "wb_cap"
  /\ ~NoSpace(WriteableOf(P.wb_head, tail, capacity), P.total)
  /\ pcP' = "w_head"
  /\ UNCHANGED <<P, last>>
  /\ UNCHANGED <<ringVars, fault, overrun, pending, hist, seqVars, ctorVars, pcC, C>>

\* WriteableBytes: return header_->capacity - (head - tail); Write: compare
P_WbCap ==
  /\ pcP = "wb_cap"
  /\ IF NoSpace(WriteableOf(P.wb_head, P.wb_tail, capacity), P.total)
     THEN /\ pcP' = "idle"
          /\ P' = [NoP EXCEPT !.n = P.n]
          /\ last' = [NoCall EXCEPT !.op = "Write", !.len = P.len,
                                    !.payload = P.payload, !.ok = FALSE]
     ELSE /\ pcP' = "w_head"
          /\ UNCHANGED <<P, last>>
  /\ UNCHANGED <<ringVars, fault, overrun, pending, hist, seqVars, ctorVars, pcC, C>>

\* Write: const uint32_t head = header_->head
P_Head ==
  /\ pcP = "w_head"
  /\ P' = [P EXCEPT !.head = head, !.i = 0]
  /\ pcP' = "w_len"
  /\ UNCHANGED <<ringVars, fault, overrun, pending, hist, last, seqVars, ctorVars, pcC, C>>

\* Write: WriteRaw(head, &len, 4), one byte
P_CopyLen ==
  /\ pcP = "w_len"
  /\ data_' = [data_ EXCEPT ![RawByteAt(P.head, mask_["prod"], 4, P.i)] =
                               EncLE(P.len)[P.i + 1]]
  /\ IF P.i + 1 < 4
     THEN /\ P' = [P EXCEPT !.i = P.i + 1]
          /\ UNCHANGED pcP
     ELSE /\ P' = [P EXCEPT !.i = 0]
          /\ pcP' = IF P.len = 0 THEN "w_store" ELSE "w_pay"
  /\ UNCHANGED <<head, tail, capacity, reserved, mask_, fault, overrun, pending,
                 hist, last, seqVars, ctorVars, pcC, C>>

\* Write: WriteRaw(head + 4, data, len), one byte; the bytes that fall beyond
\* the data area are one step, after which the thread faults or goes on
P_CopyPay ==
  /\ pcP = "w_pay"
  /\ LET a == RawByteAt(U(P.head + 4), mask_["prod"], P.len, P.i)
     IN IF a = Beyond
        THEN /\ overrun' = TRUE
             /\ \/ /\ pcP' = "fault"
                   /\ fault' = fault \cup {"prod"}
                \/ /\ pcP' = "w_store"
                   /\ UNCHANGED fault
             /\ UNCHANGED <<data_, P>>
        ELSE /\ data_' = [data_ EXCEPT ![a] = P.payload[P.i + 1]]
             /\ IF P.i + 1 < P.len
                THEN /\ P' = [P EXCEPT !.i = P.i + 1]
                     /\ UNCHANGED pcP
                ELSE /\ P' = [P EXCEPT !.i = 0]
                     /\ pcP' = "w_store"
             /\ UNCHANGED <<fault, overrun>>
  /\ UNCHANGED <<head, tail, capacity, reserved, mask_, pending, hist, last,
                 seqVars, ctorVars, pcC, C>>

\* Write: header_->head = head + total; return true
P_Store ==
  /\ pcP = "w_store"
  /\ head' = NewHead(P.head, P.total)
  /\ Accept(P.payload)
  /\ last' = [NoCall EXCEPT !.op = "Write", !.len = P.len,
                            !.payload = P.payload, !.ok = TRUE, !.h0 = P.head]
  /\ pcP' = "idle"
  /\ P' = [NoP EXCEPT !.n = P.n]
  /\ UNCHANGED <<tail, capacity, reserved, data_, mask_, fault, overrun,
                 seqVars, ctorVars, pcC, C>>

\* what a returning Read leaves in the history
ReadCall(path, ret) ==
  [NoCall EXCEPT !.op = "Read", !.max = C.max, !.out = C.out, !.ret = ret,
                 !.expect = Expect, !.path = path, !.t0 = C.tail,
                 !.h0 = C.head]

\* Read entered; const uint32_t tail = header_->tail
C_Tail(max_len) ==
  /\ pcC = "idle"
  /\ C.n < MaxConcReads
  /\ C' = [NoC EXCEPT !.n = C.n + 1, !.max = max_len, !.tail = tail,
                      !.out = FreshOut(max_len)]
  /\ pcC' = "r_head"
  /\ UNCHANGED <<ringVars, fault, overrun, pending, hist, last, seqVars, ctorVars, pcP, P>>

\* Read: head = header_->head; available = head - tail; if (available < 4)
C_Head ==
  /\ pcC = "r_head"
  /\ IF TooShort(ReadableOf(head, C.tail))
     THEN /\ last' = [ReadCall("short", 0) EXCEPT !.h0 = head]
          /\ pcC' = "idle"
          /\ C' = [NoC EXCEPT !.n = C.n]
     ELSE /\ C' = [C EXCEPT !.head = head,
                            !.available = ReadableOf(head, C.tail), !.i = 0]
          /\ pcC' = "r_len"
          /\ UNCHANGED last
  /\ UNCHANGED <<ringVars, fault, overrun, pending, hist, seqVars, ctorVars, pcP, P>>

\* Read: ReadRaw(tail, &msg_len, 4), one byte; after the last byte the tests
\* on msg_len
C_CopyLen ==
  /\ pcC = "r_len"
  /\ LET buf == Append(C.buf, data_[RawByteAt(C.tail, mask_["cons"], 4, C.i)])
         msg_len == DecLE(buf)
     IN IF C.i + 1 < 4
        THEN /\ C' = [C EXCEPT !.buf = buf, !.i = C.i + 1]
             /\ UNCHANGED <<pcC, last>>
        ELSE IF Incomplete(C.available, msg_len)
        THEN /\ last' = ReadCall("incomplete", 0)
             /\ pcC' = "idle"
             /\ C' = [NoC EXCEPT !.n = C.n]
        ELSE /\ C' = [C EXCEPT !.buf = <<>>, !.msg_len = msg_len, !.i = 0]
             /\ pcC' = IF TooLarge(msg_len, C.max) THEN "r_skip" ELSE "r_pay"
             /\ UNCHANGED last
  /\ UNCHANGED <<ringVars, fault, overrun, pending, hist, seqVars, ctorVars, pcP, P>>

\* Read: header_->tail = tail + msg_len + 4; return 0 (message skipped)
C_SkipStore ==
  /\ pcC = "r_skip"
  /\ tail' = NewTail(C.tail, C.msg_len)
  /\ pending' = Pop(pending)
  /\ last' = ReadCall("skip", 0)
  /\ pcC' = "idle"
  /\ C' = [NoC EXCEPT !.n = C.n]
  /\ hist' = Consumed(C.msg_len)
  /\ UNCHANGED <<head, capacity, reserved, data_, mask_, fault, overrun,
                 seqVars, ctorVars, pcP, P>>

\* Read: ReadRaw(tail + 4, out, msg_len), one byte; the bytes that lie beyond
\* the data area are one step, after which the thread faults or goes on
C_CopyPay ==
  /\ pcC = "r_pay"
  /\ LET a == RawByteAt(U(C.tail + 4), mask_["cons"], C.msg_len, C.i)
     IN IF a = Beyond
        THEN /\ overrun' = TRUE
             /\ \/ /\ pcC' = "fault"
                   /\ fault' = fault \cup {"cons"}
                   /\ UNCHANGED C
                \/ /\ pcC' = "r_store"
                   /\ C' = [C EXCEPT !.out = [k \in DOMAIN C.out |->
                               IF k > C.i /\ k <= C.msg_len THEN Indeterminate
                               ELSE C.out[k]]]
                   /\ UNCHANGED fault
        ELSE /\ C' = [C EXCEPT !.out[C.i + 1] = data_[a],
                               !.i = IF C.i + 1 < C.msg_len THEN C.i + 1 ELSE 0]
             /\ pcC' = IF C.i + 1 < C.msg_len THEN "r_pay" ELSE "r_store"
             /\ UNCHANGED <<fault, overrun>>
  /\ UNCHANGED <<ringVars, pending, hist, last, seqVars, ctorVars, pcP, P>>

\* Read: header_->tail = tail + msg_len + 4; return msg_len
C_Store ==
  /\ pcC = "r_store"
  /\ tail' = NewTail(C.tail, C.msg_len)
  /\ pending' = Pop(pending)
  /\ last' = ReadCall("deliver", C.msg_len)
  /\ pcC' = "idle"
  /\ C' = [NoC EXCEPT !.n = C.n]
  /\ hist' = Delivered(C.msg_len)
  /\ UNCHANGED <<head, capacity, reserved, data_, mask_, fault, overrun,
                 seqVars, ctorVars, pcP, P>>

P_Call == \E len \in ConcWriteLens(capacity) : P_WbHead(len)

C_Call == \E m \in ConcMaxLens(capacity) : C_Tail(m)

NextConc ==
  \/ P_Call \/ P_WbTail \/ P_WbCap \/ P_Head \/ P_CopyLen \/ P_CopyPay
  \/ P_Store
  \/ C_Call \/ C_Head \/ C_CopyLen \/ C_SkipStore \/ C_CopyPay \/ C_Store

SpecConc == Init /\ [][NextConc]_vars

\* the same threads with a smaller budget of calls, for the properties that
\* look at every step of a call
MaxStallWrites == 2

MaxStallReads == 1

P_CallStall == P.n < MaxStallWrites /\ P_Call

C_CallStall == C.n < MaxStallReads /\ C_Call

NextStall ==
  \/ P_CallStall \/ P_WbTail \/ P_WbCap \/ P_Head \/ P_CopyLen \/ P_CopyPay
  \/ P_Store
  \/ C_CallStall \/ C_Head \/ C_CopyLen \/ C_SkipStore \/ C_CopyPay \/ C_Store

SpecStall == Init /\ [][NextStall]_vars

\* ------------------------------------------------------- construction
\* requested data-area sizes: every value of the size word
CapRequests == 0..(SizeMod - 1)

\* ByteRingBuffer ring(mem, kHeaderSize + R, true) on a zeroed buffer
ViewCtor ==
  /\ ctor.stage = "start"
  /\ ctor.req + kHeaderSize < SizeMod
  /\ LET hdr == ProducerInit(kHeaderSize + ctor.req)
     IN /\ head' = hdr.head
        /\ tail' = hdr.tail
        /\ capacity' = hdr.capacity
        /\ reserved' = hdr.reserved
        /\ mask_' = [v \in Views |-> IF v = "prod" THEN hdr.mask ELSE mask_[v]]
        /\ data_' = [j \in 0..(hdr.capacity - 1) |-> 0]
  /\ ctor' = [ctor EXCEPT !.stage = "view", !.size = kHeaderSize + ctor.req]
  /\ UNCHANGED <<fault, overrun, pending, hist, last, calls, threadVars, shm,
                 regionVars>>

\* ShmProducer::ShmProducer: shm_(name, capacity + kHeaderSize, true, true).
\* SharedMemory::PosixCreate / MapRegion: a mapping of length 0 is refused,
\* any other creation may succeed or fail; the name is unlinked first and
\* exists afterwards only if the creation succeeded
ShmCreate ==
  /\ ctor.stage = "start"
  /\ shm.prod = "none"
  /\ LET size == USize(ctor.req + kHeaderSize)
     IN \E ok \in IF size = 0 THEN {FALSE} ELSE {TRUE, FALSE} :
          /\ ctor' = [ctor EXCEPT !.stage = "created", !.size = size,
                                  !.valid = ok]
          /\ shm' = [shm EXCEPT !.linked = ok]
  /\ UNCHANGED <<ringVars, fault, overrun, pending, hist, last, calls,
                 threadVars, regionVars>>

\* ShmProducer::ShmProducer: if (shm_.Valid()) ring_ = new ByteRingBuffer(
\* shm_.Data(), shm_.Size(), true).  A region shorter than the header makes
\* the header stores leave the region; the process then faults or goes on.
ShmProducerInit ==
  /\ ctor.stage = "created"
  /\ IF ~ctor.valid
     THEN /\ ctor' = [ctor EXCEPT !.stage = "facade", !.ring = FALSE]
          /\ UNCHANGED <<ringVars, fault, overrun>>
     ELSE LET hdr == ProducerInit(ctor.size)
              init == /\ head' = hdr.head
                      /\ tail' = hdr.tail
                      /\ capacity' = hdr.capacity
                      /\ reserved' = hdr.reserved
                      /\ mask_' = [v \in Views |->
                                     IF v = "prod" THEN hdr.mask ELSE mask_[v]]
                      /\ data_' = [j \in 0..(hdr.capacity - 1) |-> 0]
                      /\ ctor' = [ctor EXCEPT !.stage = "facade", !.ring = TRUE]
          IN IF ctor.size < kHeaderSize
             THEN /\ overrun' = TRUE
                  /\ \/ /\ fault' = {"prod"}
                        /\ ctor' = [ctor EXCEPT !.stage = "faulted"]
                        /\ UNCHANGED ringVars
                     \/ /\ init
                        /\ UNCHANGED fault
             ELSE /\ init
                  /\ UNCHANGED <<fault, overrun>>
  /\ shm' = [shm EXCEPT !.prod = IF ctor'.stage = "faulted" THEN "gone"
                                 ELSE "alive",
                        !.wasValid = ctor'.ring]
  /\ UNCHANGED <<pending, hist, last, calls, threadVars, regionVars>>

\* ByteRingBuffer::Capacity of a constructed view
ViewCapacity == capacity

\* ShmProducer::Capacity: ring_ ? ring_->Capacity() : 0
ProducerCapacity == IF ctor.ring THEN capacity ELSE 0

\* ShmProducer::IsValid
ProducerIsValid == ctor.ring

\* a zeroed region, nothing constructed yet
InitCap ==
  /\ head = 0
  /\ tail = 0
  /\ capacity = 0
  /\ reserved = 0
  /\ mask_ = [v \in Views |-> 0]
  /\ data_ = [j \in 0..(-1) |-> 0]
  /\ fault = {}
  /\ overrun = FALSE
  /\ pending = <<>>
  /\ hist = NoHist
  /\ last = NoCall
  /\ calls = 0
  /\ pcP = "idle"
  /\ P = NoP
  /\ pcC = "idle"
  /\ C = NoC
  /\ \E r \in CapRequests : ctor = [NoCtor EXCEPT !.req = r]
  /\ shm = NoShm
  /\ objects = [o \in ObjIds |-> NoObject]
  /\ posix = NoPosix

NextCap == ViewCtor \/ ShmCreate \/ ShmProducerInit

SpecCap == InitCap /\ [][NextCap]_vars

\* ---------------------------------------------------------- life cycle
\* ShmConsumer::kDefaultSize, the mapping length used for a size hint of 0
kDefaultSize == 1920 * 1080 * 3 + kHeaderSize

\* SharedMemory::PosixOpen: if (size_ == 0) and fstat gives st_size > 0,
\* size_ = st_size
PosixOpenSize(size, st_size) ==
  IF size = 0 /\ st_size > 0 THEN st_size ELSE size

\* ShmConsumer::ShmConsumer: the size handed to SharedMemory,
\* size > 0 ? size : kDefaultSize
ConsumerRegionSize(size) == IF size > 0 THEN size ELSE kDefaultSize

\* mutant: every non-persistent object unlinks, whoever created the name
CloseUnlinksOpened(create, persist) == ~persist

\* SharedMemory::Close: if (!persist_ && create_) Destroy()
CloseUnlinks(create, persist) == ~persist /\ create

\* calls made through the facades in one run
MaxLifeCalls == 4

\* ShmProducer::Write: ring_ ? ring_->Write(data, len) : false
ShmProducerWrite ==
  /\ shm.prod = "alive"
  /\ calls < MaxLifeCalls
  /\ IF ctor.ring
     THEN DoWrite
     ELSE /\ fault = {}
          /\ calls < MaxCalls
          /\ calls' = calls + 1
          /\ \E len \in WriteLens(capacity) :
               last' = [NoCall EXCEPT !.op = "Write", !.len = len, !.ok = FALSE,
                                      !.h0 = head, !.t0 = tail, !.d0 = data_]
          /\ UNCHANGED <<ringVars, fault, overrun, pending, hist, threadVars,
                         ctorVars>>

\* ShmProducer::Destroy: shm_.Destroy(), shm_unlink of the name
ShmProducerDestroy ==
  /\ shm.prod = "alive"
  /\ ~shm.destroyed
  /\ shm' = [shm EXCEPT !.linked = FALSE, !.destroyed = TRUE]
  /\ last' = [NoCall EXCEPT !.op = "Destroy", !.h0 = head, !.t0 = tail,
                            !.d0 = data_]
  /\ UNCHANGED <<ringVars, fault, overrun, pending, hist, calls,
                 threadVars, ctor, regionVars>>

\* ShmProducer::~ShmProducer, then SharedMemory::~SharedMemory: Close() of a
\* region opened with create = true, persist = true
ShmProducerDtor ==
  /\ shm.prod = "alive"
  /\ ctor' = [ctor EXCEPT !.stage = "destroyed", !.ring = FALSE]
  /\ shm' = [shm EXCEPT !.prod = "gone",
                        !.linked = IF ctor.valid /\ CloseUnlinks(TRUE, TRUE)
                                   THEN FALSE ELSE @]
  /\ UNCHANGED <<ringVars, fault, overrun, pending, hist, last, calls,
                 threadVars, regionVars>>

\* ShmConsumer::ShmConsumer(name, size): SharedMemory::PosixOpen fails when
\* the name does not exist, else maps size > 0 ? size : kDefaultSize bytes;
\* the consumer-mode view takes its mask from the header.  The consumer
\* attaches at any time, also between the creation of the region and the
\* construction of the producer's view, when the header is still zero.
\* mutant: the consumer-mode view stores the header as the producer-mode
\* view does
ConsumerInitStores(total_size) == ProducerInit(total_size)

\* ByteRingBuffer::ByteRingBuffer, consumer branch: an acquire fence and no
\* store; then mask_ = header_->capacity - 1.  The header afterwards.
ConsumerInit(total_size) ==
  [head |-> head, tail |-> tail, capacity |-> capacity, reserved |-> reserved,
   mask |-> USize(capacity - 1)]

ShmConsumerCtor(size) ==
  /\ shm.cons = "none"
  /\ shm' = [shm EXCEPT !.cons = IF shm.linked THEN "valid" ELSE "invalid",
                        !.hint = ConsumerRegionSize(size),
                        !.arg = size,
                        !.mapped = IF shm.linked
                                   THEN PosixOpenSize(ConsumerRegionSize(size),
                                                      ctor.size)
                                   ELSE 0,
                        !.late = (shm.prod = "gone"),
                        !.early = (shm.linked /\ ctor.stage = "created"),
                        !.err = IF shm.linked THEN "kOk" ELSE "kOpenFailed",
                        !.unlinkedAtOpen = shm.destroyed]
  /\ IF shm.linked
     THEN LET hdr == ConsumerInit(ConsumerRegionSize(size))
          IN /\ head' = hdr.head
             /\ tail' = hdr.tail
             /\ capacity' = hdr.capacity
             /\ reserved' = hdr.reserved
             /\ mask_' = [mask_ EXCEPT !["cons"] = hdr.mask]
     ELSE UNCHANGED <<head, tail, capacity, reserved, mask_>>
  /\ UNCHANGED <<data_, fault, overrun, pending, hist, last, calls,
                 threadVars, ctor, regionVars>>

\* ShmConsumer::Read: ring_ ? ring_->Read(out, max_len) : 0
ShmConsumerRead ==
  /\ shm.cons # "none"
  /\ calls < MaxLifeCalls
  /\ IF shm.cons = "valid"
     THEN DoRead
     ELSE /\ fault = {}
          /\ calls < MaxCalls
          /\ calls' = calls + 1
          /\ \E m \in MaxLens(capacity) :
               last' = [NoCall EXCEPT !.op = "Read", !.max = m,
                                      !.out = FreshOut(m), !.path = "inert",
                                      !.h0 = head, !.t0 = tail, !.d0 = data_]
          /\ UNCHANGED <<ringVars, fault, overrun, pending, hist, threadVars,
                         ctorVars>>

\* size hints a consumer passes: none, or the size the producer asked for
ConsumerHints == {0, kHeaderSize + ctor.req}

ShmConsumerOpen == \E size \in ConsumerHints : ShmConsumerCtor(size)

\* a zeroed name space, the producer about to be constructed
InitLife == InitCap /\ ctor.req \in RingRequests

NextLife ==
  \/ ShmCreate \/ ShmProducerInit \/ ShmProducerWrite \/ ShmProducerDestroy
  \/ ShmProducerDtor \/ ShmConsumerOpen \/ ShmConsumerRead

SpecLife == InitLife /\ [][NextLife]_vars

\* ------------------------------------------------- header initialisation
\* words found in memory that was used before
Dirty == {0, 5}

\* mutant: the stores in the order reserved, capacity, tail, head
InitStoresHeadLast == <<"reserved", "capacity", "tail", "head">>

\* ByteRingBuffer::ByteRingBuffer, producer branch: header_->head = 0;
\* header_->tail = 0; header_->capacity = cap; header_->reserved = 0
InitStores == <<"head", "tail", "capacity", "reserved">>

\* the header in memory
HeaderNow == Header(head, tail, capacity, reserved)

\* the next store of the producer-mode constructor
InitStore ==
  /\ ctor.stage = "init"
  /\ Len(ctor.stores) < Len(InitStores)
  /\ LET f == InitStores[Len(ctor.stores) + 1]
         hdr == ProducerInit(ctor.size)
     IN /\ head' = IF f = "head" THEN hdr.head ELSE head
        /\ tail' = IF f = "tail" THEN hdr.tail ELSE tail
        /\ capacity' = IF f = "capacity" THEN hdr.capacity ELSE capacity
        /\ reserved' = IF f = "reserved" THEN hdr.reserved ELSE reserved
        /\ ctor' = [ctor EXCEPT !.stores = Append(@, f)]
  /\ UNCHANGED <<data_, mask_, fault, overrun, pending, hist, last, calls,
                 threadVars, shm, regionVars>>

\* the release fence that ends the producer branch, then
\* mask_ = header_->capacity - 1
InitFence ==
  /\ ctor.stage = "init"
  /\ Len(ctor.stores) = Len(InitStores)
  /\ mask_' = [mask_ EXCEPT !["prod"] = USize(capacity - 1)]
  /\ ctor' = [ctor EXCEPT !.stage = "view"]
  /\ UNCHANGED <<head, tail, capacity, reserved, data_, fault, overrun,
                 pending, hist, last, calls, threadVars, shm, regionVars>>

\* the values a load of a header word can return: the word in memory, or,
\* while the producer's stores are not yet followed by its fence, the word
\* that was there before
Visible(f) ==
  {HeaderNow[f]} \cup (IF ctor.stage = "init" THEN {ctor.dirty[f]} ELSE {})

\* ByteRingBuffer::ByteRingBuffer in consumer mode on the same memory: an
\* acquire fence, no store, mask_ = header_->capacity - 1
AttachView ==
  /\ ctor.seenAt = "none"
  /\ \E h \in Visible("head"), t \in Visible("tail"),
        c \in Visible("capacity"), r \in Visible("reserved") :
       /\ ctor' = [ctor EXCEPT !.seenAt = ctor.stage,
                               !.seen = Header(h, t, c, r)]
       /\ mask_' = [mask_ EXCEPT !["cons"] = USize(c - 1)]
  /\ UNCHANGED <<head, tail, capacity, reserved, data_, fault, overrun,
                 pending, hist, last, calls, threadVars, shm, regionVars>>

\* memory with any words in the header, a producer-mode view about to be
\* constructed on it
InitHeader ==
  \E r \in RingRequests, h \in Dirty, t \in Dirty, c \in Dirty, z \in Dirty :
    /\ head = h
    /\ tail = t
    /\ capacity = c
    /\ reserved = z
    /\ mask_ = [v \in Views |-> 0]
    /\ data_ = [j \in 0..(ProducerInit(kHeaderSize + r).capacity - 1) |-> 0]
    /\ fault = {}
    /\ overrun = FALSE
    /\ pending = <<>>
    /\ hist = NoHist
    /\ last = NoCall
    /\ calls = 0
    /\ pcP = "idle"
    /\ P = NoP
    /\ pcC = "idle"
    /\ C = NoC
    /\ ctor = [NoCtor EXCEPT !.stage = "init", !.req = r,
                             !.size = kHeaderSize + r,
                             !.dirty = Header(h, t, c, z)]
    /\ shm = NoShm
    /\ objects = [o \in ObjIds |-> NoObject]
    /\ posix = NoPosix

NextHeader == InitStore \/ InitFence \/ AttachView

SpecHeader == InitHeader /\ [][NextHeader]_vars

\* -------------------------------------------------------- SharedMemory
\* sizes passed to the constructor: none, or a header and 8 bytes
ShmSizes == {0, kHeaderSize + 8}

\* SharedMemory::PosixCreate, MapRegion: shm_open, ftruncate and mmap may
\* each fail; mmap of length 0 always fails
CreateOutcomes(size) ==
  {"kCreationFailed", "kTruncateFailed", "kMappingFailed"}
    \cup (IF size = 0 THEN {} ELSE {"kOk"})

\* SharedMemory::PosixOpen, MapRegion: shm_open fails when the name does not
\* exist and may fail when it does; mmap may fail, and fails for length 0
OpenOutcomes(linked, size) ==
  IF ~linked THEN {"kOpenFailed"}
  ELSE {"kOpenFailed", "kMappingFailed"}
         \cup (IF size = 0 THEN {} ELSE {"kOk"})

\* a descriptor returned by shm_open
SomeFd == 3

\* mutant: shm_open with O_CREAT on the name as it is, the stale region
\* opened if there is one
PosixCreateKeepsStale(o, stale) == IF stale # 0 THEN stale ELSE o

\* SharedMemory::PosixCreate: shm_unlink(name_), then shm_open with O_CREAT:
\* the region behind the name afterwards is a new one, named after the
\* object that created it
PosixCreateRegion(o, stale) == o

\* SharedMemory::SharedMemory(name, size, create, persist): NormalizeName,
\* error_ = CreateOrOpen().  PosixCreate unlinks a stale name first; the name
\* exists afterwards only if every step succeeded.
SharedMemoryCtor(o, size, create, persist) ==
  /\ objects[o].state = "unborn"
  /\ LET mapped == IF create THEN size ELSE PosixOpenSize(size, posix.size)
         outcomes == IF create THEN CreateOutcomes(size)
                     ELSE OpenOutcomes(posix.linked, mapped)
         region == IF create THEN PosixCreateRegion(o, posix.region)
                   ELSE posix.region
     IN \E e \in outcomes :
          /\ objects' = [objects EXCEPT ![o] =
               [state |-> "live",
                data |-> (e = "kOk"),
                size |-> IF e = "kOpenFailed" THEN size ELSE mapped,
                fd |-> IF e = "kOk" THEN SomeFd ELSE -1,
                error |-> e,
                persist |-> persist,
                create |-> create,
                name |-> TRUE,
                map |-> IF e = "kOk" THEN o ELSE 0,
                region |-> IF e = "kOk" THEN region ELSE 0]]
          /\ posix' = [linked |-> IF create THEN e = "kOk" ELSE posix.linked,
                       size |-> IF create
                                THEN (IF e = "kOk" THEN size ELSE 0)
                                ELSE posix.size,
                       op |-> "ctor", by |-> o, wasValid |-> FALSE,
                       failed |-> FALSE,
                       unlinked |-> create /\ posix.linked,
                       unmapped |-> FALSE,
                       region |-> IF create
                                  THEN (IF e = "kOk" THEN region ELSE 0)
                                  ELSE posix.region,
                       mem |-> IF create /\ e = "kOk"
                               THEN [posix.mem EXCEPT ![region] = 0]
                               ELSE posix.mem,
                       unmaps |-> posix.unmaps,
                       mmaps |-> IF e = "kOk"
                                 THEN [posix.mmaps EXCEPT ![o] = @ + 1]
                                 ELSE posix.mmaps]
  /\ UNCHANGED <<ringVars, fault, overrun, pending, hist, last, calls,
                 threadVars, ctor, shm>>

\* SharedMemory::Destroy: if (name_[0] != '\0') shm_unlink(name_)
Destroy(o) ==
  /\ objects[o].state = "live"
  /\ posix' = [linked |-> IF objects[o].name THEN FALSE ELSE posix.linked,
               size |-> IF objects[o].name THEN 0 ELSE posix.size,
               op |-> "Destroy", by |-> o, wasValid |-> objects[o].data,
               failed |-> (objects[o].error # "kOk"),
               unlinked |-> objects[o].name /\ posix.linked,
               unmapped |-> FALSE,
               region |-> IF objects[o].name THEN 0 ELSE posix.region,
               mem |-> posix.mem, unmaps |-> posix.unmaps,
               mmaps |-> posix.mmaps]
  /\ UNCHANGED <<ringVars, fault, overrun, pending, hist, last, calls,
                 threadVars, ctor, shm, objects>>

\* SharedMemory::Close on the members m: nothing if !data_, else munmap,
\* close and data_ = nullptr
Close(m) ==
  IF ~m.data THEN m
  ELSE [m EXCEPT !.data = FALSE, !.fd = -1, !.map = 0, !.region = 0]

\* SharedMemory::Close: munmap(data_, size_) counted for the mapping of m
Unmapped(m) ==
  IF m.data THEN [posix.unmaps EXCEPT ![m.map] = @ + 1] ELSE posix.unmaps

\* SharedMemory::Close: if (!persist_ && create_) Destroy(), reached only
\* with a mapping
CloseUnlinksName(m) == m.data /\ CloseUnlinks(m.create, m.persist) /\ m.name

\* SharedMemory::~SharedMemory: Close(); the members end with the object
SharedMemoryDtor(o) ==
  /\ objects[o].state = "live"
  /\ objects' = [objects EXCEPT ![o] = [NoObject EXCEPT !.state = "dead"]]
  /\ LET m == objects[o]
     IN posix' = [linked |-> IF CloseUnlinksName(m) THEN FALSE ELSE posix.linked,
                  size |-> IF CloseUnlinksName(m) THEN 0 ELSE posix.size,
                  op |-> "dtor", by |-> o, wasValid |-> m.data,
                  failed |-> (m.error # "kOk"),
                  unlinked |-> CloseUnlinksName(m) /\ posix.linked,
                  unmapped |-> m.data,
                  region |-> IF CloseUnlinksName(m) THEN 0 ELSE posix.region,
                  mem |-> posix.mem,
                  unmaps |-> Unmapped(m),
                  mmaps |-> posix.mmaps]
  /\ UNCHANGED <<ringVars, fault, overrun, pending, hist, last, calls,
                 threadVars, ctor, shm>>

\* SharedMemory::MoveFrom: what the destination holds afterwards
MovedTo(other) == [other EXCEPT !.state = "live"]

\* mutant: the source keeps its data_ pointer
MovedFromShared(other) == [other EXCEPT !.fd = -1, !.name = FALSE]

\* SharedMemory::MoveFrom: what is left in the source: fd_ = -1,
\* data_ = nullptr, name_[0] = '\0'; error_ is not touched
MovedFrom(other) ==
  [other EXCEPT !.fd = -1, !.data = FALSE, !.name = FALSE, !.map = 0,
                !.region = 0]

\* SharedMemory(SharedMemory&& other): MoveFrom(other)
MoveCtor(o, other) ==
  /\ o # other
  /\ objects[o].state = "unborn"
  /\ objects[other].state = "live"
  /\ objects' = [objects EXCEPT ![o] = MovedTo(objects[other]),
                                ![other] = MovedFrom(objects[other])]
  /\ posix' = [posix EXCEPT !.op = "move", !.by = o,
                            !.wasValid = FALSE, !.failed = FALSE,
                            !.unlinked = FALSE, !.unmapped = FALSE]
  /\ UNCHANGED <<ringVars, fault, overrun, pending, hist, last, calls,
                 threadVars, ctor, shm>>

\* operator=(SharedMemory&& other): if (this != &other) { Close();
\* MoveFrom(other); }
MoveAssign(o, other) ==
  /\ o # other
  /\ objects[o].state = "live"
  /\ objects[other].state = "live"
  /\ objects' = [objects EXCEPT ![o] = MovedTo(objects[other]),
                                ![other] = MovedFrom(objects[other])]
  /\ LET m == objects[o]
     IN posix' = [linked |-> IF CloseUnlinksName(m) THEN FALSE ELSE posix.linked,
                  size |-> IF CloseUnlinksName(m) THEN 0 ELSE posix.size,
                  op |-> "assign", by |-> o, wasValid |-> m.data,
                  failed |-> (m.error # "kOk"),
                  unlinked |-> CloseUnlinksName(m) /\ posix.linked,
                  unmapped |-> m.data,
                  region |-> IF CloseUnlinksName(m) THEN 0 ELSE posix.region,
                  mem |-> posix.mem,
                  unmaps |-> Unmapped(m),
                  mmaps |-> posix.mmaps]
  /\ UNCHANGED <<ringVars, fault, overrun, pending, hist, last, calls,
                 threadVars, ctor, shm>>

\* RemoveSharedMemory(name): SharedMemory tmp(name, 16, false, false);
\* tmp.Destroy(); then the destructor of tmp
RemoveSharedMemory ==
  /\ \E e \in OpenOutcomes(posix.linked, kHeaderSize) :
       posix' = [linked |-> FALSE, size |-> 0, op |-> "RemoveSharedMemory",
                 by |-> 0, wasValid |-> (e = "kOk"), failed |-> (e # "kOk"),
                 unlinked |-> posix.linked,
                 unmapped |-> (e = "kOk"),
                 region |-> 0, mem |-> posix.mem, unmaps |-> posix.unmaps,
                 mmaps |-> posix.mmaps]
  /\ UNCHANGED <<ringVars, fault, overrun, pending, hist, last, calls,
                 threadVars, ctor, shm, objects>>

Construct ==
  \E o \in ObjIds, size \in ShmSizes, create \in BOOLEAN, persist \in BOOLEAN :
    SharedMemoryCtor(o, size, create, persist)

\* an empty name space, no object constructed
InitShm == InitCap /\ ctor.req = 0

NextShm ==
  \/ Construct
  \/ \E o \in ObjIds : Destroy(o)
  \/ \E o \in ObjIds : SharedMemoryDtor(o)
  \/ \E o \in ObjIds, other \in ObjIds : MoveCtor(o, other)
  \/ \E o \in ObjIds, other \in ObjIds : MoveAssign(o, other)
  \/ RemoveSharedMemory

SpecShm == InitShm /\ [][NextShm]_vars

\* ------------------------------------------------------------ properties
WasWrite == last.op \in {"Write", "WriteFault"}

WasRead == last.op = "Read"

OutPrefix(n) == SubSeq(last.out, 1, n)

\* C1: round trip.  When every accepted payload had length >= 1 and every
\* Read so far was given max_len >= the length of the oldest unread payload,
\* a Read returns the length and the bytes of the oldest unread payload, and
\* returns 0 when no accepted payload is unread.  (Stated for runs in which no
\* copy has left the data area.)
C1_RoundTrip ==
  (WasRead /\ ~overrun /\ ~hist.zeroAccepted /\ ~hist.undersized) =>
    IF last.expect = <<>>
    THEN last.ret = 0
    ELSE /\ last.ret = Len(last.expect[1])
         /\ OutPrefix(Len(last.expect[1])) = last.expect[1]

\* C4: a Write called with WriteableBytes() < L + 4 returns false and leaves
\* head, tail and the data area as they were.  (Stated for runs in which no
\* copy has left the data area.)
C4_FullRejection ==
  (WasWrite /\ ~overrun /\ WriteableOf(last.h0, last.t0, capacity) < last.len + 4) =>
    /\ last.op = "Write"
    /\ ~last.ok
    /\ head = last.h0
    /\ tail = last.t0
    /\ data_ = last.d0

\* C5: Write(data, 0) returns false and leaves head and the data area as they
\* were; no accepted payload has length 0.
C5_ZeroRejected ==
  /\ (WasWrite /\ last.len = 0) =>
       (~last.ok /\ head = last.h0 /\ data_ = last.d0)
  /\ ~hist.zeroAccepted

\* C6: a Read given max_len < L, L the length of the oldest unread payload,
\* returns 0, advances tail by L + 4, stores nothing into the output buffer and
\* leaves head and the data area alone; the Read after it delivers the next
\* payload if its buffer is large enough.  (Stated for runs in which no copy
\* has left the data area.)
C6_OversizedSkip ==
  /\ (WasRead /\ ~overrun /\ last.expect # <<>>
        /\ Len(last.expect[1]) > last.max) =>
       /\ last.ret = 0
       /\ tail = U(last.t0 + Len(last.expect[1]) + 4)
       /\ last.out = FreshOut(last.max)
       /\ head = last.h0
       /\ data_ = last.d0
  /\ (WasRead /\ ~overrun /\ last.afterSkip /\ last.expect # <<>>
        /\ Len(last.expect[1]) >= 1 /\ Len(last.expect[1]) <= last.max) =>
       /\ last.ret = Len(last.expect[1])
       /\ OutPrefix(Len(last.expect[1])) = last.expect[1]

\* C7: every Read made while HasData() is true advances tail.
C7_ReadAdvances ==
  (WasRead /\ ReadableOf(last.h0, last.t0) >= 4) => tail # last.t0

\* C8: when head = tail, HasData() is false and Read returns 0 and changes
\* neither head, tail, the data area nor the output buffer.
C8_EmptyDetection ==
  /\ head = tail => ~HasData
  /\ (WasRead /\ last.h0 = last.t0) =>
       /\ last.ret = 0
       /\ head = last.h0
       /\ tail = last.t0
       /\ data_ = last.d0
       /\ last.out = FreshOut(last.max)

\* a Read on a ring drained after traffic, stale frame bytes still in place
C8_Witness ==
  /\ WasRead
  /\ last.h0 = last.t0
  /\ last.h0 # 0
  /\ \E j \in DOMAIN data_ : data_[j] # 0

\* the round trip restricted to histories without a length whose len + 4 wraps
RoundTripInRange == ~hist.wrapAccepted => C1_RoundTrip

SkipInRange == ~hist.wrapAccepted => C6_OversizedSkip

AdvanceInRange == (~hist.wrapAccepted /\ ~hist.zeroAccepted) => C7_ReadAdvances

\* C2: with one producer and one consumer running concurrently, a Read that
\* returns L > 0 delivers the length and the bytes of the oldest accepted
\* payload not yet consumed, and a Read drops a payload without delivering it
\* only when that payload is longer than max_len.  (Stated for runs in which
\* no copy has left the data area and every accepted payload had length >= 1.)
C2_SpscIntegrity ==
  /\ (WasRead /\ ~overrun /\ ~hist.zeroAccepted /\ last.ret > 0) =>
       /\ last.expect # <<>>
       /\ last.ret = Len(last.expect[1])
       /\ OutPrefix(last.ret) = last.expect[1]
  /\ (WasRead /\ ~overrun /\ ~hist.zeroAccepted /\ last.path = "skip") =>
       /\ last.expect # <<>>
       /\ Len(last.expect[1]) > last.max

SpscIntegrityInRange ==
  (~hist.wrapAccepted /\ P.len + 4 < IndexMod) => C2_SpscIntegrity

\* C3: in every state, after any interleaving of the steps of Write and Read,
\* head - tail taken modulo the index range lies in 0 .. capacity.
C3_Occupancy == U(head - tail) >= 0 /\ U(head - tail) <= capacity

\* the ring is full and head has wrapped past the index range, so that
\* head < tail numerically, while a Read is under way
C3_Witness ==
  /\ pcC \notin {"idle", "fault"}
  /\ head < tail
  /\ U(head - tail) = capacity

\* C9: in every state, also with a Write or Read of the other side under way,
\* ReadableBytes() + WriteableBytes() on that state equals Capacity().
C9_OccupancySum == ReadableBytes + WriteableBytes = Capacity

\* a partly filled ring while a Write and a Read are both under way
C9_Witness ==
  /\ pcP \in {"w_len", "w_pay"}
  /\ pcC \in {"r_len", "r_pay"}
  /\ ReadableBytes > 0
  /\ WriteableBytes > 0

IsPow2(c) == \E k \in 0..SizeBits : c = 2^k

\* c is the largest power of two <= r
LargestPow2Below(c, r) == IsPow2(c) /\ c <= r /\ r < 2 * c

\* C10: for every requested data-area size R >= 4, the Capacity() of a
\* producer-mode view constructed with total_size = 16 + R, and of a valid
\* ShmProducer constructed with capacity R, is the largest power of two <= R.
C10_CapacityRounding ==
  /\ (ctor.stage = "view" /\ ctor.req >= 4) =>
       LargestPow2Below(ViewCapacity, ctor.req)
  /\ (ctor.stage = "facade" /\ ProducerIsValid /\ ctor.req >= 4) =>
       LargestPow2Below(ProducerCapacity, ctor.req)

\* a view and a valid producer whose request is not a power of two
C10_Witness ==
  /\ ctor.stage \in {"view", "facade"}
  /\ ctor.stage = "facade" => ProducerIsValid
  /\ ctor.req >= 4
  /\ ~IsPow2(ctor.req)
  /\ capacity < ctor.req

\* a producer has initialised the region: a producer-mode view exists, alone
\* or inside a ShmProducer
RegionInitialised ==
  \/ ctor.stage = "view"
  \/ ctor.stage = "facade" /\ ProducerIsValid

\* C11: after a producer (a ShmProducer or a producer-mode view) has
\* initialised a region, whatever size was requested, the header field
\* capacity is a power of two, is >= 4, is at most half the range of the size
\* word (2^31), and equals the region size minus 16.
C11_CapacityInvariant ==
  RegionInitialised =>
    /\ IsPow2(capacity)
    /\ capacity >= 4
    /\ 2 * capacity <= SizeMod
    /\ capacity = ctor.size - kHeaderSize

\* the frame of payload length len stored at position pos does not fit before
\* the end of the data area: its prefix or its payload wraps to offset 0
Straddles(pos, len) == RawOffset(pos, mask_["prod"]) + 4 + len > capacity

\* C12: whatever the head position at which a payload was accepted, also when
\* its length prefix or its payload straddles the end of the data area, the
\* Read that reaches it with a large enough buffer returns the identical
\* payload, so that messages whose framed sizes add up to more than capacity
\* are delivered as written.  (Stated for runs in which no copy has left the
\* data area and every accepted payload had length >= 1.)
C12_WrapInvariance ==
  (WasRead /\ ~overrun /\ ~hist.zeroAccepted /\ last.expect # <<>>
     /\ Len(last.expect[1]) <= last.max
     /\ Straddles(last.t0, Len(last.expect[1]))) =>
    /\ last.ret = Len(last.expect[1])
    /\ OutPrefix(Len(last.expect[1])) = last.expect[1]

\* wrap invariance restricted to histories without a length whose len + 4 wraps
WrapInRange == ~hist.wrapAccepted => C12_WrapInvariance

\* a payload whose frame straddled the end of the data area was delivered
WrapDelivered ==
  /\ WasRead
  /\ ~hist.wrapAccepted
  /\ last.ret > 0
  /\ Straddles(last.t0, last.ret)

\* head and tail as they would be in an index word that never overflows: the
\* sums of the amounts the stores of Write and Read have added to them
UnboundedHead == hist.uhead

UnboundedTail == hist.utail

\* C13: when head or tail have overflowed the index word (capacity being at
\* most half its range), head - tail computed modulo the range equals the
\* difference of the indices that never overflow, and the masked offsets are
\* those of the indices that never overflow; so the space check of Write, the
\* checks of Read and the bytes they address are the same as without overflow.
C13_IndexWrapSafe ==
  /\ ReadableBytes = UnboundedHead - UnboundedTail
  /\ WriteableBytes = capacity - (UnboundedHead - UnboundedTail)
  /\ RawOffset(head, mask_["prod"]) = UnboundedHead % capacity
  /\ RawOffset(tail, mask_["cons"]) = UnboundedTail % capacity

\* a Read has delivered a payload from a ring whose head had overflowed the
\* index word while its tail had not yet
C13_Witness ==
  /\ UnboundedHead >= IndexMod
  /\ WasRead
  /\ last.h0 < last.t0
  /\ last.ret > 0

\* data-area offsets of the logical positions in [tail, head), tail and head
\* being the values last stored in the header
UnreadOffsets ==
  {RawOffset(U(tail + k), mask_["cons"]) : k \in 0..(ReadableBytes - 1)}

\* the data-area offset the producer's next copy step stores to, if it is
\* inside a copy
NextWriteOffset ==
  IF pcP = "w_len" THEN {RawByteAt(P.head, mask_["prod"], 4, P.i)}
  ELSE IF pcP = "w_pay"
  THEN {RawByteAt(U(P.head + 4), mask_["prod"], P.len, P.i)} \ {Beyond}
  ELSE {}

\* C14: under every interleaving, a data-area offset that a Write in progress
\* stores to is not the offset of a logical position in [tail, head), tail
\* being the value last published by the consumer.  (Stated for runs in which
\* no copy has left the data area and every accepted payload had length >= 1.)
C14_NoOverwriteUnread ==
  (~overrun /\ ~hist.zeroAccepted) => NextWriteOffset \cap UnreadOffsets = {}

\* the same for a Write whose len + 4 does not wrap
NoOverwriteInRange ==
  P.len + 4 < IndexMod => NextWriteOffset \cap UnreadOffsets = {}

\* the producer is inside a copy next to unread bytes while the consumer is
\* inside a copy
WriteBesideUnread ==
  /\ pcP \in {"w_len", "w_pay"}
  /\ P.len + 4 < IndexMod
  /\ pcC \in {"r_len", "r_pay"}
  /\ UnreadOffsets # {}

\* what stands for bytes that are not a complete frame
NoFrame == <<Untouched>>

RECURSIVE FramesAt(_, _)
\* the payloads of the frames that the n bytes from logical position pos hold,
\* read as Read reads them (4-byte length L, then L bytes); NoFrame where the
\* bytes do not end with a frame
FramesAt(pos, n) ==
  IF n = 0 THEN <<>>
  ELSE IF n < 4 THEN <<NoFrame>>
  ELSE LET L == DecLE(ReadRaw(data_, mask_["cons"], pos, 4))
       IN IF 4 + L > n THEN <<NoFrame>>
          ELSE <<ReadRaw(data_, mask_["cons"], U(pos + 4), L)>>
                 \o FramesAt(U(pos + 4 + L), n - 4 - L)

\* the bytes at positions [tail, head) are a whole number of complete frames,
\* those of the accepted payloads not yet consumed
WholeFrames == FramesAt(tail, ReadableBytes) = pending

\* C15: head is stored last in Write, after the length prefix and the payload
\* bytes; in every state, under every interleaving, the bytes at positions
\* [tail, head) form a whole number of complete frames, each a 4-byte length L
\* followed by the L payload bytes that were accepted.  (Stated for runs in
\* which no copy has left the data area and every accepted payload had
\* length >= 1.)
C15_FrameIntegrity ==
  /\ (~overrun /\ ~hist.zeroAccepted) => WholeFrames
  /\ pcP \in {"w_len", "w_pay", "w_store"} => head = P.head

\* the same for histories without a length whose len + 4 wraps
FrameIntegrityInRange ==
  (~overrun /\ ~hist.wrapAccepted /\ P.len + 4 < IndexMod) => WholeFrames

\* a complete frame is in the ring while both sides are inside a copy
FrameInFlight ==
  /\ Len(pending) = 1
  /\ pcP \in {"w_len", "w_pay"}
  /\ pcC \in {"r_len", "r_pay"}

\* C16: when HasData() is true, the ring holds at least one complete frame,
\* and a Read called in that state with max_len >= the length of that frame
\* returns a non-zero length.  (Stated for runs in which no copy has left the
\* data area.)
C16_HasDataComplete ==
  (WasRead /\ ~overrun /\ ReadableOf(last.h0, last.t0) >= 4) =>
    /\ last.expect # <<>>
    /\ Len(last.expect[1]) <= last.max => last.ret > 0

\* the same for histories without a zero length and without a length whose
\* len + 4 wraps
HasDataInRange ==
  (~hist.wrapAccepted /\ ~hist.zeroAccepted) => C16_HasDataComplete

\* a Read made with HasData() true returned a payload
HasDataDelivered ==
  /\ WasRead
  /\ ReadableOf(last.h0, last.t0) >= 4
  /\ ~hist.wrapAccepted
  /\ ~hist.zeroAccepted
  /\ last.ret > 0

\* C17: for every length L of the width of the length word with
\* L > capacity - 4, also one for which L + 4 overflows, Write(data, L)
\* returns false in every ring state and changes neither head, tail nor the
\* data area.  (Stated for runs in which no copy has left the data area.)
C17_TooLargeNeverSucceeds ==
  (WasWrite /\ ~overrun /\ last.len > capacity - 4) =>
    /\ last.op = "Write"
    /\ ~last.ok
    /\ head = last.h0
    /\ tail = last.t0
    /\ data_ = last.d0

\* the same for the lengths whose L + 4 does not overflow
TooLargeInRange ==
  (WasWrite /\ last.len > capacity - 4 /\ last.len + 4 < IndexMod) =>
    (last.op = "Write" /\ ~last.ok /\ head = last.h0 /\ data_ = last.d0)

\* a Write of capacity - 3 bytes was rejected on an empty ring
TooLargeRejected ==
  /\ WasWrite
  /\ last.len = capacity - 3
  /\ last.h0 = last.t0
  /\ ~last.ok

\* the ring is full: head - tail == capacity
Full(h, t) == ReadableOf(h, t) = capacity

\* C18: a Write with L + 4 == WriteableBytes() succeeds and leaves
\* head - tail == capacity, WriteableBytes() == 0 and ReadableBytes() ==
\* Capacity(); on a full ring every Write with L >= 1 returns false; a full
\* ring is not taken for an empty one (head # tail, HasData() true); and the
\* Read of a full ring returns the oldest stored message intact.  (Stated for
\* runs in which no copy has left the data area and every accepted payload
\* had length >= 1.)
C18_ExactFill ==
  /\ (WasWrite /\ ~overrun
        /\ last.len + 4 = WriteableOf(last.h0, last.t0, capacity)) =>
       /\ last.ok
       /\ Full(head, tail)
       /\ WriteableBytes = 0
       /\ ReadableBytes = Capacity
  /\ (WasWrite /\ ~overrun /\ Full(last.h0, last.t0) /\ last.len >= 1) =>
       (~last.ok /\ head = last.h0 /\ data_ = last.d0)
  /\ Full(head, tail) => (head # tail /\ HasData)
  /\ (WasRead /\ ~overrun /\ ~hist.zeroAccepted /\ Full(last.h0, last.t0)
        /\ last.expect # <<>> /\ Len(last.expect[1]) <= last.max) =>
       /\ last.ret = Len(last.expect[1])
       /\ OutPrefix(last.ret) = last.expect[1]

\* the same for histories without a length whose len + 4 wraps
ExactFillInRange ==
  (~hist.wrapAccepted /\ last.len + 4 < IndexMod) => C18_ExactFill

\* a Write of capacity - 4 bytes filled the empty ring exactly
ExactlyFilled ==
  /\ WasWrite
  /\ last.ok
  /\ last.len = capacity - 4
  /\ last.len >= 1
  /\ Full(head, tail)

\* the steps of a Write under way, and of a Read under way
ProducerSteps ==
  P_WbTail \/ P_WbCap \/ P_Head \/ P_CopyLen \/ P_CopyPay \/ P_Store

ConsumerSteps == C_Head \/ C_CopyLen \/ C_SkipStore \/ C_CopyPay \/ C_Store

\* an upper bound on the number of its own steps a Write under way still takes:
\* two loads and the test, the head load, 4 prefix bytes, len payload bytes,
\* the head store
WriteStepsLeft ==
  IF pcP = "wb_tail" THEN P.len + 8
  ELSE IF pcP = "wb_cap" THEN P.len + 7
  ELSE IF pcP = "w_head" THEN P.len + 6
  ELSE IF pcP = "w_len" THEN P.len + 5 - P.i
  ELSE IF pcP = "w_pay" THEN P.len + 1 - P.i
  ELSE IF pcP = "w_store" THEN 1
  ELSE 0

\* the same for a Read under way: the head load, 4 prefix bytes, at most
\* max_len payload bytes, the tail store
ReadStepsLeft ==
  IF pcC = "r_head" THEN C.max + 6
  ELSE IF pcC = "r_len" THEN C.max + 5 - C.i
  ELSE IF pcC = "r_pay" THEN C.msg_len + 1 - C.i
  ELSE IF pcC \in {"r_skip", "r_store"} THEN 1
  ELSE 0

WriteUnderWay == pcP \notin {"idle", "fault"}

ReadUnderWay == pcC \notin {"idle", "fault"}

\* C19: a Write or Read under way can always take its next step, whatever the
\* state of the other side, and each of its steps lowers a bound on the steps
\* it has left that starts at len + 8 (Write) or max_len + 6 (Read) and that
\* no step of the other side changes; so every call completes within a
\* bounded number of its own steps.  ReadableBytes, WriteableBytes and
\* HasData are loads of the header without a loop.  (A thread stopped by a
\* memory fault is not under way.)
C19_NeverBlocks ==
  /\ [](WriteUnderWay => ENABLED ProducerSteps)
  /\ [](ReadUnderWay => ENABLED ConsumerSteps)
  /\ [][(WriteUnderWay /\ ProducerSteps) =>
          (WriteStepsLeft' < WriteStepsLeft /\ WriteStepsLeft' >= 0
             /\ ReadStepsLeft' = ReadStepsLeft)]_vars
  /\ [][(ReadUnderWay /\ ConsumerSteps) =>
          (ReadStepsLeft' < ReadStepsLeft /\ ReadStepsLeft' >= 0
             /\ WriteStepsLeft' = WriteStepsLeft)]_vars

\* a Write is at its space test on a full ring while a Read is stalled in the
\* middle of its payload copy
C19_Witness ==
  /\ pcP = "wb_cap"
  /\ pcC = "r_pay"
  /\ C.i > 0
  /\ Full(head, tail)

\* a ShmProducer that was valid has been destroyed, Destroy() was never
\* called, and a ShmConsumer was constructed after that
LateConsumer ==
  /\ shm.late
  /\ shm.wasValid
  /\ ~shm.destroyed

\* C20: when a ShmProducer that wrote messages is destroyed without Destroy()
\* having been called, a ShmConsumer constructed afterwards under the same
\* name is valid, and its Reads (given large enough buffers) return the
\* unread messages in the order written and 0 once none is left.  (Stated for
\* runs in which no copy has left the data area and every accepted payload
\* had length >= 1.)
C20_RegionSurvivesProducer ==
  LateConsumer =>
    /\ shm.cons = "valid"
    /\ (WasRead /\ ~overrun /\ ~hist.zeroAccepted /\ ~hist.undersized) =>
         IF last.expect = <<>>
         THEN last.ret = 0
         ELSE /\ last.ret = Len(last.expect[1])
              /\ OutPrefix(last.ret) = last.expect[1]

\* the same for histories without a length whose len + 4 wraps
SurvivesInRange == ~hist.wrapAccepted => C20_RegionSurvivesProducer

\* a consumer constructed after the producer's end was handed a message
LateDelivered ==
  /\ LateConsumer
  /\ ~hist.wrapAccepted
  /\ WasRead
  /\ last.ret > 0

\* after Destroy() a consumer constructed later is not valid
LateAfterDestroy ==
  /\ shm.late
  /\ shm.destroyed
  /\ shm.cons = "invalid"

\* a ShmConsumer was constructed after Destroy() had removed the name
OpenedAfterDestroy ==
  /\ shm.cons # "none"
  /\ shm.unlinkedAtOpen

\* a Read by a ShmConsumer that holds a mapping, made after Destroy()
ReadAfterDestroy ==
  /\ shm.destroyed
  /\ shm.cons = "valid"
  /\ WasRead

\* C21: after Destroy() a ShmConsumer constructed under the name is not valid
\* and its region reports kOpenFailed, while a ShmConsumer that was mapped
\* before goes on reading correctly: given large enough buffers its Reads
\* return the unread messages in the order written, and 0 once none is left.
\* (Stated for runs in which no copy has left the data area and every
\* accepted payload had length >= 1.)
C21_DestroySemantics ==
  /\ OpenedAfterDestroy => (shm.cons = "invalid" /\ shm.err = "kOpenFailed")
  /\ (ReadAfterDestroy /\ ~overrun /\ ~hist.zeroAccepted /\ ~hist.undersized) =>
       IF last.expect = <<>>
       THEN last.ret = 0
       ELSE /\ last.ret = Len(last.expect[1])
            /\ OutPrefix(last.ret) = last.expect[1]

\* the same for histories without a length whose len + 4 wraps
DestroyInRange == ~hist.wrapAccepted => C21_DestroySemantics

\* a mapped consumer was handed a message after Destroy()
DeliveredAfterDestroy ==
  /\ ReadAfterDestroy
  /\ ~hist.wrapAccepted
  /\ last.ret > 0

\* ShmProducer::WriteableBytes: ring_ ? ring_->WriteableBytes() : 0
ProducerWriteableBytes == IF ctor.ring THEN WriteableBytes ELSE 0

\* SharedMemory::Valid of the consumer's region
ConsumerRegionValid == shm.err = "kOk"

\* ShmConsumer::IsValid: ring_ != nullptr
ConsumerIsValid == shm.cons = "valid"

\* ShmConsumer::HasData: ring_ && ring_->HasData()
ConsumerHasData == ConsumerIsValid /\ HasData

\* ShmConsumer::ReadableBytes: ring_ ? ring_->ReadableBytes() : 0
ConsumerReadableBytes == IF ConsumerIsValid THEN ReadableBytes ELSE 0

\* mutant: the capacity word of the header is returned without a test of ring_
ConsumerCapacityOfHeader == Capacity

\* ShmConsumer::Capacity: ring_ ? ring_->Capacity() : 0
ConsumerCapacity == IF ConsumerIsValid THEN Capacity ELSE 0

\* a step that is a Write call of the ShmProducer
ProducerWriteStep == calls' # calls /\ last'.op \in {"Write", "WriteFault"}

\* a step that is a Read call of the ShmConsumer
ConsumerReadStep == calls' # calls /\ last'.op = "Read"

\* what the observers of a facade that is not valid return
InertObservers ==
  /\ (shm.prod = "alive" /\ ~ProducerIsValid) =>
       /\ ProducerWriteableBytes = 0
       /\ ProducerCapacity = 0
  /\ (shm.cons # "none" /\ ~ConsumerIsValid) =>
       /\ ~ConsumerHasData
       /\ ConsumerReadableBytes = 0
       /\ ConsumerCapacity = 0

\* C22: a ShmProducer is valid exactly when its region was created and
\* mapped, a ShmConsumer exactly when its region was opened and mapped.  A
\* ShmProducer that is not valid returns false from Write and 0 from
\* WriteableBytes and Capacity; a ShmConsumer that is not valid returns 0
\* from Read, ReadableBytes and Capacity and false from HasData; their Write
\* and Read leave the header, the data area and the output buffer as they
\* were.
C22_InertFacade ==
  /\ [](shm.prod = "alive" => (ProducerIsValid <=> ctor.valid))
  /\ [](shm.cons # "none" => (ConsumerIsValid <=> ConsumerRegionValid))
  /\ []InertObservers
  /\ [][(ProducerWriteStep /\ ~ProducerIsValid) =>
          (~last'.ok /\ UNCHANGED ringVars)]_vars
  /\ [][(ConsumerReadStep /\ ~ConsumerIsValid) =>
          /\ last'.ret = 0
          /\ last'.out = FreshOut(last'.max)
          /\ UNCHANGED ringVars]_vars

\* a ShmConsumer that is not valid was asked to read while the region of the
\* destroyed name held a frame and a capacity
C22_Witness ==
  /\ shm.cons = "invalid"
  /\ WasRead
  /\ capacity > 0
  /\ ReadableBytes >= 4

\* a ShmProducer that is not valid was asked to write
InertWrite ==
  /\ shm.prod = "alive"
  /\ ~ProducerIsValid
  /\ WasWrite

\* SharedMemory::Valid of object o
Valid(o) == objects[o].data

\* SharedMemory::GetError of object o
GetError(o) == objects[o].error

\* C23: for every SharedMemory object that has been constructed and not yet
\* destructed, whether built from a name, moved to, moved from or used for
\* Destroy(), Valid() is false exactly when GetError() is not kOk.
C23_ValidMatchesStatus ==
  \A o \in ObjIds :
    objects[o].state = "live" => (~Valid(o) <=> GetError(o) # "kOk")

\* the same for objects that were not the source of a move
ValidMatchesUnmoved ==
  \A o \in ObjIds :
    (objects[o].state = "live" /\ objects[o].name) =>
      (~Valid(o) <=> GetError(o) # "kOk")

\* an object that failed to open, and one that was moved to
StatusObserved ==
  /\ \E o \in ObjIds : objects[o].state = "live" /\ objects[o].name
                       /\ GetError(o) = "kOpenFailed"
  /\ posix.op = "move"

\* the last call was made on an object whose construction had failed
OnFailedObject(ops) ==
  /\ posix.op \in ops
  /\ posix.failed
  /\ ~posix.wasValid

\* C24: Destroy() of, the destructor of and a move assignment to a
\* SharedMemory object whose construction failed remove no existing name
\* and unmap nothing.
C24_NotValidInert ==
  OnFailedObject({"Destroy", "dtor", "assign"}) =>
    (~posix.unlinked /\ ~posix.unmapped)

\* the same without Destroy(): closing such an object is inert, and Close
\* leaves its members as they are
CloseNotValidInert ==
  /\ OnFailedObject({"dtor", "assign"}) => (~posix.unlinked /\ ~posix.unmapped)
  /\ \A o \in ObjIds : ~Valid(o) => Close(objects[o]) = objects[o]

\* an object whose construction failed was destructed while the name existed
FailedObjectClosed ==
  /\ OnFailedObject({"dtor"})
  /\ posix.linked

\* a ShmConsumer that is valid was constructed with a size of 0
OpenedWithoutSize ==
  /\ ConsumerIsValid
  /\ shm.arg = 0

\* C25: a ShmConsumer constructed with a size of 0 maps as many bytes as the
\* ShmProducer created under the name (capacity + kHeaderSize), whatever the
\* producer's capacity.
C25_SizeAutoDetect == OpenedWithoutSize => shm.mapped = ctor.size

\* a ShmConsumer constructed with a size maps that many bytes
HintedSizeMapped ==
  (ConsumerIsValid /\ shm.arg # 0) => shm.mapped = shm.arg

\* a step that constructs the ShmConsumer
ConsumerAttachStep == shm.cons = "none" /\ shm'.cons # "none"

\* the capacity the producer-mode view stored for the region it was given
CapacityWritten == ProducerInit(ctor.size).capacity

\* the producer-mode view has stored the header
HeaderWritten == ctor.stage \notin {"start", "created"}

\* C26: constructing a ShmConsumer leaves head, tail, capacity, reserved and
\* the data area as they were, so the unread bytes stay readable; a view
\* constructed on the header the producer wrote addresses the data area with
\* the producer's mask, and once the producer has stored the capacity the
\* consumer's Capacity() is that capacity, whatever size the consumer passed.
C26_ConsumerAttachFrame ==
  /\ [][ConsumerAttachStep =>
          /\ UNCHANGED <<head, tail, capacity, reserved, data_>>
          /\ ReadableBytes' = ReadableBytes
          /\ (ConsumerIsValid' /\ HeaderWritten)
               => mask_'["cons"] = mask_["prod"]]_vars
  /\ []((ConsumerIsValid /\ HeaderWritten) => ConsumerCapacity = CapacityWritten)

\* a consumer constructed with a size other than the region's, after the
\* producer had written and ended, was handed a message
C26_Witness ==
  /\ ConsumerIsValid
  /\ shm.late
  /\ shm.mapped # ctor.size
  /\ WasRead
  /\ last.ret > 0

\* s is the beginning of t
IsPrefix(s, t) == Len(s) <= Len(t) /\ s = SubSeq(t, 1, Len(s))

\* a consumer-mode view constructed after the producer-mode constructor
\* ended found head = 0, tail = 0, reserved = 0 and the final capacity
SeenInitialised ==
  ctor.seenAt = "view" =>
    ctor.seen = Header(0, 0, ProducerInit(ctor.size).capacity, 0)

\* C27 as stated: the producer-mode constructor stores reserved, capacity,
\* tail, head in that order, and a consumer-mode view constructed after it
\* ended finds head = 0, tail = 0, reserved = 0 and the final capacity.
C27_InitOrder ==
  /\ IsPrefix(ctor.stores, <<"reserved", "capacity", "tail", "head">>)
  /\ SeenInitialised

\* C27 amended: the producer-mode constructor stores head, tail, capacity,
\* reserved in that order, and a consumer-mode view constructed after it
\* ended finds head = 0, tail = 0, reserved = 0 and the final capacity.
C27_InitOrderAsCoded ==
  /\ IsPrefix(ctor.stores, <<"head", "tail", "capacity", "reserved">>)
  /\ SeenInitialised

\* a consumer-mode view was constructed after the constructor had ended on
\* memory whose header words were all non-zero before
C27_Witness ==
  /\ ctor.seenAt = "view"
  /\ ctor.dirty = Header(5, 5, 5, 5)
  /\ Len(ctor.stores) = 4

\* a step of the producer's Write, its WriteableBytes included
ProducerStep == <<pcP, P>>' # <<pcP, P>>

\* a step of the consumer's Read
ConsumerStep == <<pcC, C>>' # <<pcC, C>>

\* C28: no step of Write or WriteableBytes changes tail; no step of Read
\* changes head or a byte of the data area; no step changes capacity or
\* reserved; and every step leaves head and tail as they were or advances
\* them, modulo the index range, by at most capacity.  (The last part is
\* stated for runs in which no copy has left the data area.)
C28_SingleWriter ==
  /\ [][ProducerStep => tail' = tail]_vars
  /\ [][ConsumerStep => (head' = head /\ data_' = data_)]_vars
  /\ [][capacity' = capacity /\ reserved' = reserved]_vars
  /\ [][~overrun' => /\ U(head' - head) <= capacity
                     /\ U(tail' - tail) <= capacity]_vars

\* head has been stored up to the end of the index range while the consumer
\* had stored tail
C28_Witness ==
  /\ hist.uhead >= IndexMod
  /\ hist.utail > 0
  /\ ~overrun

\* Read: head - tail for the values the Read under way has loaded
SampledReadable == ReadableOf(C.head, C.tail)

\* C29: while Read copies the 4 prefix bytes, head - tail >= 4 holds for the
\* values it loaded; while it copies the L payload bytes, head - tail >= 4 + L
\* holds; and the byte it copies next lies at a logical position in
\* [tail, head).  (Stated for runs in which no copy has left the data area
\* and every accepted payload had length >= 1.)
C29_NoSpeculativeReads ==
  (~overrun /\ ~hist.zeroAccepted) =>
    /\ pcC = "r_len" => /\ SampledReadable >= kLenPrefix
                        /\ C.i < SampledReadable
    /\ pcC = "r_pay" => /\ SampledReadable >= kLenPrefix + C.msg_len
                        /\ kLenPrefix + C.i < SampledReadable

\* the same for histories without a length whose len + 4 wraps
NoSpeculationInRange ==
  (~hist.wrapAccepted /\ P.len + 4 < IndexMod) => C29_NoSpeculativeReads

\* Read is copying the last payload byte of a frame that fills the ring
LastByteCopied ==
  /\ pcC = "r_pay"
  /\ ~hist.wrapAccepted
  /\ C.msg_len = capacity - kLenPrefix
  /\ C.i = C.msg_len - 1

\* the Read under way has passed its tests on available and msg_len
PastTests == pcC \in {"r_skip", "r_pay", "r_store"}

\* the values the Read under way has loaded show a whole frame: at least 4
\* readable bytes, a prefix L >= 1, and at least L + 4 readable bytes
WholeFrameSampled ==
  /\ SampledReadable >= kLenPrefix
  /\ C.msg_len # 0
  /\ SampledReadable >= C.msg_len + kLenPrefix

\* a step in which Read returns
ReadReturns == pcC \notin {"idle", "fault"} /\ pcC' = "idle"

\* C30: a Read that finds fewer than 4 readable bytes, a prefix of 0, or a
\* prefix L with head - tail < L + 4 goes no further: it returns 0 and leaves
\* tail, head, the data area and the output buffer as they were; and a Read
\* changes tail only when it delivers or skips a message.  (The first part
\* is stated for runs in which no copy has left the data area and every
\* accepted payload had length >= 1.)
C30_ZeroReturnsInert ==
  /\ []((PastTests /\ ~overrun /\ ~hist.zeroAccepted) => WholeFrameSampled)
  /\ [][(ReadReturns /\ pcC \in {"r_head", "r_len"}) =>
          /\ last'.ret = 0
          /\ last'.out = FreshOut(last'.max)
          /\ UNCHANGED <<head, tail, data_>>]_vars
  /\ [][(ConsumerStep /\ tail' # tail) =>
          (ReadReturns /\ last'.path \in {"deliver", "skip"})]_vars

\* the same for histories without a length whose len + 4 wraps
ZeroReturnsInRange ==
  []((~hist.wrapAccepted /\ P.len + 4 < IndexMod) =>
       ((PastTests /\ ~overrun /\ ~hist.zeroAccepted) => WholeFrameSampled))

\* a Read found a prefix of 0 behind 4 readable bytes and returned 0
ZeroPrefixSeen ==
  /\ WasRead
  /\ ReadableOf(last.h0, last.t0) >= kLenPrefix
  /\ last.path = "incomplete"
  /\ hist.zeroAccepted

\* --------------------------------------------------------- retry protocol
\* the benchmark's producer and consumer loops over one ring: the producer
\* calls Write with message number sent until it returns true, the consumer
\* calls Read until it has counted MaxMessages non-zero returns
MaxMessages == 3

\* msg_size of message number k: a frame that fills the ring, then a short one
MessageLen(k) == IF k % 2 = 0 THEN capacity - 4 ELSE 1

\* buffers the consumer polls with, none smaller than a message
PollMaxLens(cap) == {m \in ConcMaxLens(cap) : m >= cap - 4}

\* while (sent < iterations) { if (ring.Write(payload.data(), msg_size)) ++sent; }
\* the loop test and the entry into Write; sent is the number of Writes that
\* returned true
P_Send ==
  /\ pcP = "idle"
  /\ hist.accepted < MaxMessages
  /\ LET len == MessageLen(hist.accepted)
     IN P' = [NoP EXCEPT !.n = hist.accepted, !.len = len,
                         !.payload = Pattern(len, hist.accepted),
                         !.total = WriteTotal(len), !.wb_head = head]
  /\ pcP' = "wb_tail"
  /\ UNCHANGED <<ringVars, fault, overrun, pending, hist, last, seqVars, ctorVars, pcC, C>>

\* while (count < iterations) { len = ring.Read(out.data(), msg_size);
\* if (len > 0) ++count; }: the loop test and the entry into Read; count is
\* the number of Reads that returned a length
C_Poll(max_len) ==
  /\ pcC = "idle"
  /\ hist.received < MaxMessages
  /\ C' = [NoC EXCEPT !.n = hist.received, !.max = max_len, !.tail = tail,
                      !.out = FreshOut(max_len)]
  /\ pcC' = "r_head"
  /\ UNCHANGED <<ringVars, fault, overrun, pending, hist, last, seqVars, ctorVars, pcP, P>>

C_PollCall == \E m \in PollMaxLens(capacity) : C_Poll(m)

\* the producer thread's steps and the consumer thread's steps
ProducerLoop ==
  P_Send \/ P_WbTail \/ P_WbCap \/ P_Head \/ P_CopyLen \/ P_CopyPay \/ P_Store

ConsumerLoop == C_PollCall \/ C_Head \/ C_CopyLen \/ C_CopyPay \/ C_Store

\* a ring with room for a message of at least one byte
InitRetry == Init /\ capacity > 4

NextRetry ==
  \/ P_Send \/ P_WbTail \/ P_WbCap \/ P_Head \/ P_CopyLen \/ P_CopyPay
  \/ P_Store
  \/ C_PollCall \/ C_Head \/ C_CopyLen \/ C_CopyPay \/ C_Store

\* both threads are scheduled again and again (std::thread, consumer.join())
SpecRetry ==
  InitRetry /\ [][NextRetry]_vars /\ WF_vars(ProducerLoop) /\ WF_vars(ConsumerLoop)

\* both loops have left: sent = count = iterations and the ring is empty
RetryDone ==
  /\ pcP = "idle" /\ pcC = "idle"
  /\ hist.accepted = MaxMessages /\ hist.received = MaxMessages
  /\ pending = <<>> /\ head = tail

\* C31: with a producer that retries Write and a consumer that polls Read,
\* both weakly fair, messages of 1..capacity - 4 bytes and buffers no smaller,
\* every message the producer attempts is eventually accepted, every accepted
\* message is eventually returned by Read, and the run ends with exactly
\* MaxMessages messages sent and MaxMessages received
C31_RetryLiveness ==
  /\ [](hist.received <= hist.accepted /\ hist.accepted <= MaxMessages)
  /\ \A k \in 0..(MaxMessages - 1) :
       /\ (pcP # "idle" /\ hist.accepted = k) ~> (hist.accepted > k)
       /\ (hist.accepted > k) ~> (hist.received > k)
  /\ <>[]RetryDone

\* the run has ended: the last Read returned the last message
C31_Witness ==
  RetryDone /\ last.op = "Read" /\ last.ret = MessageLen(MaxMessages - 1)

\* --------------------------------------------------------- occupancy accounting
RECURSIVE FrameBytes(_)
\* bytes of the frames of the messages in q, 4 + L each
FrameBytes(q) == IF q = <<>> THEN 0 ELSE 4 + Len(Head(q)) + FrameBytes(Tail(q))

\* no Write and no Read is under way
Quiescent == pcP = "idle" /\ pcC = "idle"

\* with no call under way, head - tail is the sum of 4 + L over the messages
\* accepted and neither delivered nor skipped
QuiescentOccupancy == Quiescent => ReadableBytes = FrameBytes(pending)

\* the step on which a Write is accepted adds 4 + L to ReadableBytes()
AcceptAdds ==
  hist'.accepted > hist.accepted =>
    U(head' - tail') = ReadableBytes + 4 + Len(pending'[Len(pending')])

\* the step on which a Read delivers or skips takes 4 + L from ReadableBytes()
ConsumeTakes ==
  (pending # <<>> /\ pending' = Pop(pending)) =>
    U(head' - tail') = ReadableBytes - (4 + Len(Head(pending)))

\* C32: in every state with no Write or Read under way, head - tail modulo the
\* index range equals the sum of 4 + L over the accepted messages neither
\* delivered nor skipped; each accepted Write raises ReadableBytes() by
\* exactly 4 + L, each delivering or skipping Read lowers it by exactly 4 + L.
C32_OccupancyAccounting ==
  /\ [](~overrun => QuiescentOccupancy)
  /\ [][~overrun' => (AcceptAdds /\ ConsumeTakes)]_vars

\* the same with lengths whose len + 4 fits the index word
OccupancyInRange ==
  /\ []((~hist.wrapAccepted /\ P.len + 4 < IndexMod) => QuiescentOccupancy)
  /\ [][(~hist'.wrapAccepted /\ P.len + 4 < IndexMod)
          => (AcceptAdds /\ ConsumeTakes)]_vars

\* a frame that fills the ring has been accepted, and a shorter one after it
\* was read
FullFrameAccounted ==
  /\ Quiescent
  /\ ~hist.wrapAccepted
  /\ hist.received > 0
  /\ pending # <<>>
  /\ ReadableBytes = capacity

\* --------------------------------------------------------- data-area bounds
\* each constructed view's mask_ is header_->capacity - 1
ViewMasksMatch ==
  /\ ctor.ring => mask_["prod"] = USize(capacity - 1)
  /\ shm.cons = "valid" => mask_["cons"] = USize(capacity - 1)

\* a Write whose len + 4 does not fit the index word got past the space test
WrapLetThrough == hist.wrapAccepted \/ "prod" \in fault

\* C33: in every state, also when the consumer's view was constructed after
\* the producer had created the region and before it had initialised the
\* header, each view's mask equals the header's capacity - 1 and no WriteRaw
\* or ReadRaw has touched a byte offset outside 0 .. capacity - 1.
C33_AccessesInBounds == ~WrapLetThrough => (ViewMasksMatch /\ ~overrun)

\* the same for a consumer that attached before the region was created or
\* after the producer's view was constructed
BoundsWhenAttachedLater ==
  (~WrapLetThrough /\ ~shm.early) => (ViewMasksMatch /\ ~overrun)

\* a Read through a view constructed on the zero header has loaded its
\* prefix from outside the data area
EarlyViewOverrun ==
  /\ shm.early
  /\ ~WrapLetThrough
  /\ overrun
  /\ last.op \in {"Read", "ReadFault"}

\* a consumer that attached after the producer's view has read a message
LaterViewRead ==
  /\ shm.cons = "valid" /\ ~shm.early
  /\ ~hist.wrapAccepted
  /\ hist.received > 0

\* --------------------------------------------------------- Close
\* the step is a Close() of object o: its destructor, or a move-assignment
\* to it
ClosesObject(o) ==
  /\ objects[o].state = "live"
  /\ posix'.by = o
  /\ posix'.op \in {"dtor", "assign"}

ClosedAgain ==
  /\ posix.op = "dtor"
  /\ ~posix.wasValid
  /\ ~posix.failed
  /\ posix.linked

\* the destructor of a non-persistent object that opened the name has
\* unmapped the region; the name is still there
OpenedNonPersistentClosed ==
  /\ posix.op = "dtor"
  /\ posix.unmapped
  /\ posix.linked

\* --------------------------------------------------------- stale regions
\* stores into one region in one run
MaxRegionWrites == 2

\* ByteRingBuffer::Write through a view on the mapping of object o: the
\* store of head lands in the region that o has mapped
RegionWrite(o) ==
  /\ objects[o].state = "live"
  /\ objects[o].data
  /\ posix.mem[objects[o].region] < MaxRegionWrites
  /\ posix' = [posix EXCEPT !.mem[objects[o].region] = @ + 1,
                            !.op = "write", !.by = o,
                            !.wasValid = TRUE, !.failed = FALSE,
                            !.unlinked = FALSE, !.unmapped = FALSE]
  /\ UNCHANGED <<ringVars, fault, overrun, pending, hist, last, calls,
                 threadVars, ctor, shm, objects>>

\* objects constructed, written through and destructed under one name
NextStale ==
  \/ Construct
  \/ \E o \in ObjIds : SharedMemoryDtor(o)
  \/ \E o \in ObjIds : RegionWrite(o)

SpecStale == InitShm /\ [][NextStale]_vars

\* the step is a successful construction of o with create = true
CreatesRegion(o) ==
  /\ objects[o].state = "unborn"
  /\ objects'[o].state = "live"
  /\ objects'[o].create
  /\ objects'[o].data

\* the region o has mapped is mapped by no other object, is the one behind
\* the name, and holds head = tail = 0
FreshRegion(o) ==
  /\ \A q \in ObjIds \ {o} : objects'[q].region # objects'[o].region
  /\ posix'.region = objects'[o].region
  /\ posix'.mem[objects'[o].region] = 0

\* every other object keeps its mapping, and the region it has mapped keeps
\* its contents
OldViewsKept(o) ==
  \A q \in ObjIds \ {o} :
    objects[q].data =>
      /\ objects'[q] = objects[q]
      /\ posix'.mem[objects[q].region] = posix.mem[objects[q].region]

\* C35: a creation under a name that exists removes the old name first: the
\* creator starts on a region no other object has mapped, with head = tail
\* = 0; objects that have the old region mapped keep it, a creation leaves
\* its contents alone, and the contents of a region change only by a write
\* through an object that has this region mapped.
C35_CreateReplacesStale ==
  /\ [][\A o \in ObjIds : CreatesRegion(o) => (FreshRegion(o) /\ OldViewsKept(o))]_vars
  /\ [][\A r \in ObjIds : posix'.mem[r] # posix.mem[r] =>
          (posix'.op = "write" /\ objects[posix'.by].region = r)]_vars

\* a region was created while an object had the old region of that name
\* mapped and written; the new one was written since, and the two differ
C35_Witness ==
  \E q \in ObjIds, o \in ObjIds :
    /\ objects[q].data /\ objects[o].data /\ objects[o].create
    /\ objects[q].region # objects[o].region
    /\ posix.region = objects[o].region
    /\ posix.mem[objects[q].region] > 0
    /\ posix.mem[objects[o].region] > 0
    /\ posix.mem[objects[q].region] # posix.mem[objects[o].region]

\* --------------------------------------------------------- ownership
\* the objects that hold mapping k
Owners(k) == {o \in ObjIds : objects[o].state = "live" /\ objects[o].map = k}

\* every mapping made and not yet unmapped is held by exactly one object, and
\* no mapping is unmapped more often than it was made
OneOwner ==
  \A k \in ObjIds :
    /\ posix.mmaps[k] <= 1
    /\ posix.unmaps[k] <= posix.mmaps[k]
    /\ Cardinality(Owners(k)) = posix.mmaps[k] - posix.unmaps[k]

\* an object holds a mapping exactly if it is valid
MappingIsData ==
  \A o \in ObjIds : (objects[o].map # 0) = Valid(o)

\* no object is left: every mapping made was unmapped once
AllUnmappedOnce ==
  (\A o \in ObjIds : objects[o].state # "live") =>
    \A k \in ObjIds : posix.unmaps[k] = posix.mmaps[k]

\* the step is a move construction of o or a move assignment to o
MovesInto(o) == posix'.by = o /\ posix'.op \in {"move", "assign"}

\* the step is made on or by an object with an empty name
ByEmptyName ==
  /\ posix'.op \in {"dtor", "Destroy", "assign"}
  /\ posix'.by \in ObjIds
  /\ objects[posix'.by].state = "live"
  /\ ~objects[posix'.by].name

\* C36: after any sequence of move constructions and move assignments every
\* live mapping is held by exactly one object; the object moved from is not
\* Valid() and has an empty name; a move assignment unmaps the mapping its
\* destination held; once every object is destructed each mapping was
\* unmapped exactly once; and an object with the empty name of a moved-from
\* object never removes the name.
C36_ExclusiveOwnership ==
  /\ [](OneOwner /\ MappingIsData /\ AllUnmappedOnce)
  /\ [][\A o \in ObjIds : MovesInto(o) =>
          /\ \E other \in ObjIds \ {o} :
               /\ objects[other].state = "live"
               /\ ~Valid(other)' /\ ~objects'[other].name
               /\ objects'[o].map = objects[other].map
               /\ Valid(o)' = Valid(other)
          /\ (posix'.op = "assign" /\ Valid(o)) =>
               posix'.unmaps[objects[o].map] = posix.unmaps[objects[o].map] + 1]_vars
  /\ [][ByEmptyName =>
          (posix'.linked = posix.linked /\ posix'.unmaps = posix.unmaps)]_vars

\* a mapping was moved into an object that held another one; both objects
\* are destructed and both mappings are unmapped
C36_Witness ==
  /\ \A o \in ObjIds : objects[o].state = "dead"
  /\ \E k \in ObjIds, j \in ObjIds :
       k # j /\ posix.unmaps[k] = 1 /\ posix.unmaps[j] = 1
  /\ posix.op = "dtor"
  /\ ~posix.wasValid

====
